---- MODULE Spec2Model ----
(***************************************************************************)
(* A model of hb9tf/spectre: the HackRF collection path                    *)
(* (collection/hackrf/hackrf.go), the export sinks (export package) and    *)
(* the waterfall renderer (extraction package).                            *)
(*                                                                         *)
(*   Spec      the aggregator of SDR.Sweep as it runs: the ingest loop     *)
(*             and the ticker-driven flush goroutine, interleaved at the   *)
(*             granularity of their accesses to s.buckets and bucketsMu.   *)
(*   SpecFold  the same loop body and tick body run one whole body at a    *)
(*             time (no interleaving inside a body), with the readings of  *)
(*             the current flush window recorded.                          *)
(*   SpecParse the line parser: the scanner loop of Sweep and scanRow.     *)
(*   SpecRender  one call of extraction.Render on a stored table.          *)
(*   SpecColor   one call of extraction.GetColor.                          *)
(*   SpecSQL     export.SQL.Write consuming the sample channel.            *)
(*   SpecSend    export.SpectreServer.Write consuming the sample channel.  *)
(*   SpecSendKeep  the Write of collection/export, which keeps its batch.  *)
(*   SpecGrid    one call of extraction.findGridStepSize.                  *)
(*   SpecFilter  filter.Filter between two sample channels.                *)
(*   SpecCollect the server's collectHandler requests and the exporter     *)
(*               draining s.Samples.                                       *)
(*                                                                         *)
(* dB values are float64 in the program; the model computes with exact     *)
(* rationals (reduced fractions), so float64 rounding is not modelled.     *)
(* Frequencies and sample counts are uint64 in the program and stay far    *)
(* below 2^64 in the model.                                                *)
(***************************************************************************)
EXTENDS Integers, Sequences, FiniteSets, TLC

VARIABLES
    \* ---- SDR.Sweep, aggregator side (hackrf.go:75-113) ----
    buckets,      \* s.buckets: reference to the live table (index into heap)
    heap,         \* the maps allocated so far: table id -> (FreqCenter -> Sample)
    bucketsMu,    \* s.bucketsMu: "free", "ingest" or "flush"
    ipc,          \* position of the ingest loop
    sample,       \* the ingest loop's current sample
    stored,       \* the ingest loop's local copy of the stored aggregate
    insMap,       \* the map reference loaded for the unlocked insert of line 98
    fpc,          \* position of the flush goroutine
    old,          \* the flush goroutine's local "old"
    mustVisit,    \* keys in old when the range loop started
    visited,      \* keys the range loop has produced so far
    samples,      \* everything sent on the output channel, in order
    fatal,        \* the Go runtime aborted the process
    ticks,        \* ticks consumed so far
    nRecv,        \* readings received from rawSamples so far
    recvSum,      \* sum of SampleCount of the readings received
    doneSum,      \* sum of SampleCount of the readings whose loop body completed
    snap,         \* contents of old at the moment of the last swap
    batchStart,   \* Len(samples) at the moment of the last swap
    win,          \* SpecFold: readings ingested since the last swap, in order
    \* ---- SDR.Sweep, parser side (hackrf.go:64-73, 118-181) ----
    input,        \* all lines the sweep tool prints, in order
    stream,       \* lines the scanner has not delivered yet
    cur,          \* scanner.Text()
    ppc,          \* position of the parser goroutine
    hdr,          \* scanRow's locals sampleCount, freqLow, freqHigh, binWidth, numBins
    binIdx,       \* scanRow's loop variable i
    rawSamples,   \* everything sent on rawSamples, in order
    rowOut,       \* the samples the current scanRow call has sent
    rowStatus,    \* "none", "running", "ok" (returned nil), "err", "panic"
    \* ---- the exporter behind the output channel (collection/spectre.go:97-106) ----
    sinkUp,       \* the exporter's Write is still receiving from samples
    \* ---- extraction.Render (unnamed/part_005:324-448) ----
    table,        \* the rows of the spectre table for the requested Source
    filter,       \* req.Filter: StartFreq, EndFreq, StartTime, EndTime (Unix ms)
    asked,        \* req.Image.Height and Width as the caller passed them
    req,          \* req.Image: Height, Width, AddGrid (Render overwrites them)
    rpc,          \* position inside Render
    maxImg,       \* locals maxImgHeight, maxImgWidth
    ranked,       \* rows of the inner SELECT with their TimeBucket, FreqBucket
    imgData,      \* result rows of getImgDataTmpl not read yet
    ext,          \* locals lowFreq, highFreq, globalMinDB, globalMaxDB, sTime, eTime
    img,          \* local img: <<rowIdx, colIdx>> -> db
    canvas,       \* the RGBA image: bounds and the pixels that were set
    drawn,        \* the drawing loop's dbRange and the level of every cell
    result,       \* the *RenderResult returned (<<>> is nil)
    rerr,         \* the error returned ("nil" is nil)
    \* ---- extraction.GetColor (unnamed/part_005:145-168) ----
    lvl,          \* the argument
    colour,       \* the colour returned
    cpc,          \* "idle", "call", "done"
    \* ---- export.SQL.Write (unnamed/part_004:49-73) ----
    sqlpc,        \* "idle", "create", "loop", "returned"
    counts,       \* local counts: error, success, total
    sqlRecv,      \* samples received from the channel so far
    sqlRows,      \* rows the INSERTs have added to the table
    sqlRet,       \* what Write returned: "none", "nil", "err"
    \* ---- export.SpectreServer.Write (unnamed/part_003:27-72) ----
    SendSamplesAmount,  \* s.SendSamplesAmount as configured
    wpc,          \* "idle", "loop", "returned"
    samplesToSend,\* local samplesToSend (samples are numbered as received)
    sendRecv,     \* samples received from the channel so far
    posts,        \* every http.Post so far: the samples of its body and its outcome
    \* ---- extraction.findGridStepSize (unnamed/part_005:192-205) ----
    extent,       \* the argument step as passed (the axis extent in pixels)
    horizontal,   \* the argument horizontal
    step,         \* the variable step
    gpc,          \* "idle", "loop", "returned"
    halvings,     \* number of times line 202 has run
    \* ---- filter.Filter (unnamed/part_005:458-470) ----
    filters,      \* the argument filters: a sequence of FilterFreq
    filterIn,     \* samples still to come on the input channel
    filterSeen,   \* samples received from the input channel, in order
    filterOut,    \* samples sent to the output channel, in order
    flpc,         \* "idle", "range", "returned"
    \* ---- SpectreServer.collectHandler (server/server.go:188-201) ----
    Samples,      \* s.Samples: the buffered channel
    hpc,          \* per request goroutine: "idle", "decode", "range", "done"
    hreq,         \* per request goroutine: the request (method and body)
    hsamples,     \* per request goroutine: local samples
    hidx,         \* per request goroutine: samples of the range loop already sent
    hstatus,      \* per request goroutine: HTTP status of the response (0: none yet)
    written       \* samples the exporter has received from s.Samples, in order

aggVars == <<buckets, heap, bucketsMu, ipc, sample, stored, insMap, fpc, old,
             mustVisit, visited, samples, fatal, ticks, nRecv, recvSum,
             doneSum, snap, batchStart, win>>
parseVars == <<input, stream, cur, ppc, hdr, binIdx, rawSamples, rowOut, rowStatus>>
renderVars == <<table, filter, asked, req, rpc, maxImg, ranked, imgData, ext, img,
                canvas, drawn, result, rerr>>
colorVars == <<lvl, colour, cpc>>
sqlVars == <<sqlpc, counts, sqlRecv, sqlRows, sqlRet>>
sendVars == <<SendSamplesAmount, wpc, samplesToSend, sendRecv, posts>>
gridVars == <<extent, horizontal, step, gpc, halvings>>
filterVars == <<filters, filterIn, filterSeen, filterOut, flpc>>
collectVars == <<Samples, hpc, hreq, hsamples, hidx, hstatus, written>>
stageVars == <<gridVars, filterVars, collectVars>>
toolVars == <<renderVars, colorVars, sqlVars, sendVars, stageVars>>
vars == <<aggVars, parseVars, sinkUp, toolVars>>

----------------------------------------------------------------------------
\* Bounds of the model.

MaxReadings == 3      \* readings the ingest loop receives in one run
MaxTicks == 2         \* ticker ticks in one run
MaxLines == 2         \* lines of sweep output in one run

----------------------------------------------------------------------------
\* Exact rationals standing for float64 dB values.

RECURSIVE GCD(_, _)
GCD(a, b) == IF b = 0 THEN a ELSE GCD(b, a % b)

Abs(x) == IF x < 0 THEN -x ELSE x

Rat(n, d) ==
    LET g == GCD(Abs(n), d)
    IN  [n |-> n \div g, d |-> d \div g]

RatInt(k) == [n |-> k, d |-> 1]
RatAdd(a, b) == Rat(a.n * b.d + b.n * a.d, a.d * b.d)
RatMulInt(a, k) == Rat(a.n * k, a.d)
RatDivInt(a, k) == Rat(a.n, a.d * k)
RatLess(a, b) == a.n * b.d < b.n * a.d
RatLeq(a, b) == a.n * b.d <= b.n * a.d

\* time.Time values: whole seconds since the Unix epoch and nanoseconds.
Time(sec, nsec) == [sec |-> sec, nsec |-> nsec]
TimeBefore(a, b) == a.sec < b.sec \/ (a.sec = b.sec /\ a.nsec < b.nsec)
TimeLeq(a, b) == a = b \/ TimeBefore(a, b)

----------------------------------------------------------------------------
\* sdr.Sample as scanRow builds it.

SourceName == "hackrf"
Identifier == "id"

MkSampleCenterLow(low, high, decibels, sampleCount, parsedTime) ==
    [Identifier |-> Identifier, Source |-> SourceName,
     FreqCenter |-> low, FreqLow |-> low, FreqHigh |-> high,
     DBLow |-> decibels, DBHigh |-> decibels, DBAvg |-> decibels,
     SampleCount |-> sampleCount, Start |-> parsedTime, End |-> parsedTime]

MkSample(low, high, decibels, sampleCount, parsedTime) ==
    [Identifier |-> Identifier, Source |-> SourceName,
     FreqCenter |-> (low + high) \div 2, FreqLow |-> low, FreqHigh |-> high,
     DBLow |-> decibels, DBHigh |-> decibels, DBAvg |-> decibels,
     SampleCount |-> sampleCount, Start |-> parsedTime, End |-> parsedTime]

----------------------------------------------------------------------------
\* The merge of the ingest loop (hackrf.go:101-109).

MergeUnweighted(st, s) ==
    [st EXCEPT
       !.End = s.End,
       !.DBAvg = RatDivInt(RatAdd(st.DBAvg, s.DBAvg), 2),
       !.DBLow = IF RatLess(s.DBLow, st.DBLow) THEN s.DBLow ELSE st.DBLow,
       !.DBHigh = IF RatLess(st.DBHigh, s.DBHigh) THEN s.DBHigh ELSE st.DBHigh,
       !.SampleCount = st.SampleCount + s.SampleCount]

Merge(st, s) ==
    [st EXCEPT
       !.End = s.End,
       !.DBAvg = RatDivInt(RatAdd(RatMulInt(st.DBAvg, st.SampleCount),
                                  RatMulInt(s.DBAvg, s.SampleCount)),
                           st.SampleCount + s.SampleCount),
       !.DBLow = IF RatLess(s.DBLow, st.DBLow) THEN s.DBLow ELSE st.DBLow,
       !.DBHigh = IF RatLess(st.DBHigh, s.DBHigh) THEN s.DBHigh ELSE st.DBHigh,
       !.SampleCount = st.SampleCount + s.SampleCount]

Range(f) == {f[x] : x \in DOMAIN f}

\* Go maps as functions with a finite domain.
EmptyMap == <<>>
MapPut(m, k, v) == [x \in (DOMAIN m) \cup {k} |-> IF x = k THEN v ELSE m[x]]

RECURSIVE SumCounts(_)
SumCounts(m) ==
    IF DOMAIN m = {} THEN 0
    ELSE LET k == CHOOSE x \in DOMAIN m : TRUE
         IN  m[k].SampleCount + SumCounts([x \in (DOMAIN m) \ {k} |-> m[x]])

SumSent == SumCounts(samples)
SumLive == SumCounts(heap[buckets])

----------------------------------------------------------------------------
\* The readings the ingest loop receives: samples as scanRow builds them
\* (one dB value, Start = End, SampleCount >= 1), over two bins.

DBs == {RatInt(-20), Rat(-37, 2)}
Counts == {1, 2}
Times == {Time(1, 0), Time(2, 0)}

FoldReadings ==
    {MkSample(100, 110, db, c, t) : db \in DBs, c \in Counts, t \in Times}
        \cup {MkSample(110, 120, RatInt(-20), 1, Time(1, 0))}

\* The interleaved specification draws from four of them.
Readings ==
    {MkSample(100, 110, RatInt(-20), 1, Time(2, 0)),
     MkSample(100, 110, Rat(-37, 2), 2, Time(1, 0)),
     MkSample(110, 120, RatInt(-20), 1, Time(1, 0)),
     MkSample(110, 120, Rat(-37, 2), 1, Time(2, 0))}

----------------------------------------------------------------------------
\* State after line 35 of Sweep and before any goroutine has run.

AggInit ==
    /\ heap = <<EmptyMap>>
    /\ buckets = 1
    /\ bucketsMu = "free"
    /\ ipc = "recv"
    /\ sample = <<>>
    /\ stored = <<>>
    /\ insMap = 0
    /\ fpc = "wait"
    /\ old = 0
    /\ mustVisit = {}
    /\ visited = {}
    /\ samples = <<>>
    /\ fatal = FALSE
    /\ ticks = 0
    /\ nRecv = 0
    /\ recvSum = 0
    /\ doneSum = 0
    /\ snap = EmptyMap
    /\ batchStart = 0
    /\ win = <<>>

ParseIdle ==
    /\ input = <<>>
    /\ stream = <<>>
    /\ cur = <<>>
    /\ ppc = "idle"
    /\ hdr = <<>>
    /\ binIdx = 0
    /\ rawSamples = <<>>
    /\ rowOut = <<>>
    /\ rowStatus = "none"

\* The renderer, the colour mapper and the sinks before they are called.
RenderIdle ==
    /\ table = {}
    /\ filter = <<>>
    /\ asked = <<>>
    /\ req = <<>>
    /\ rpc = "idle"
    /\ maxImg = <<>>
    /\ ranked = <<>>
    /\ imgData = <<>>
    /\ ext = <<>>
    /\ img = <<>>
    /\ canvas = <<>>
    /\ drawn = <<>>
    /\ result = <<>>
    /\ rerr = "nil"

ColorIdle ==
    /\ lvl = 0
    /\ colour = <<>>
    /\ cpc = "idle"

SQLIdle ==
    /\ sqlpc = "idle"
    /\ counts = <<>>
    /\ sqlRecv = 0
    /\ sqlRows = 0
    /\ sqlRet = "none"

SendIdle ==
    /\ SendSamplesAmount = 0
    /\ wpc = "idle"
    /\ samplesToSend = <<>>
    /\ sendRecv = 0
    /\ posts = <<>>

GridIdle ==
    /\ extent = 0
    /\ horizontal = FALSE
    /\ step = 0
    /\ gpc = "idle"
    /\ halvings = 0

FilterIdle ==
    /\ filters = <<>>
    /\ filterIn = <<>>
    /\ filterSeen = <<>>
    /\ filterOut = <<>>
    /\ flpc = "idle"

CollectIdle ==
    /\ Samples = <<>>
    /\ hpc = <<>>
    /\ hreq = <<>>
    /\ hsamples = <<>>
    /\ hidx = <<>>
    /\ hstatus = <<>>
    /\ written = <<>>

StagesIdle == GridIdle /\ FilterIdle /\ CollectIdle

ToolsIdle == RenderIdle /\ ColorIdle /\ SQLIdle /\ SendIdle /\ StagesIdle

----------------------------------------------------------------------------
\* The ingest loop (hackrf.go:95-113), one action per access to shared state.

\* line 95: for sample := range rawSamples
IngestRecv(r) ==
    /\ ~fatal /\ ipc = "recv" /\ nRecv < MaxReadings
    /\ sample' = r
    /\ nRecv' = nRecv + 1
    /\ recvSum' = recvSum + r.SampleCount
    /\ ipc' = "lookup"
    /\ UNCHANGED <<buckets, heap, bucketsMu, stored, insMap, fpc, old, mustVisit,
                   visited, samples, fatal, ticks, doneSum, snap, batchStart, win>>

\* line 96: stored, ok := s.buckets[sample.FreqCenter], without the mutex;
\* lines 101-109 then work on the local copy.
IngestLookup ==
    /\ ~fatal /\ ipc = "lookup"
    /\ IF sample.FreqCenter \in DOMAIN heap[buckets]
         THEN /\ stored' = Merge(heap[buckets][sample.FreqCenter], sample)
              /\ ipc' = "lock"
         ELSE /\ stored' = <<>>
              /\ ipc' = "insertLoad"
    /\ UNCHANGED <<buckets, heap, bucketsMu, sample, insMap, fpc, old, mustVisit,
                   visited, samples, fatal, ticks, nRecv, recvSum, doneSum, snap,
                   batchStart, win>>

\* line 98, first half: the map reference s.buckets is loaded, without the mutex.
IngestInsertLoad ==
    /\ ~fatal /\ ipc = "insertLoad"
    /\ insMap' = buckets
    /\ ipc' = "insertStore"
    /\ UNCHANGED <<buckets, heap, bucketsMu, sample, stored, fpc, old, mustVisit,
                   visited, samples, fatal, ticks, nRecv, recvSum, doneSum, snap,
                   batchStart, win>>

\* line 98, second half: the entry is assigned in the map that was loaded;
\* line 99: continue.
IngestInsertStore ==
    /\ ~fatal /\ ipc = "insertStore"
    /\ heap' = [heap EXCEPT ![insMap] = MapPut(@, sample.FreqCenter, sample)]
    /\ doneSum' = doneSum + sample.SampleCount
    /\ ipc' = "recv"
    /\ UNCHANGED <<buckets, bucketsMu, sample, stored, insMap, fpc, old, mustVisit,
                   visited, samples, fatal, ticks, nRecv, recvSum, snap, batchStart,
                   win>>

\* The Go runtime aborts ("concurrent map iteration and map write") when the
\* assignment of line 98 runs while the range loop of line 88 advances over
\* the same map.
IngestInsertFatal ==
    /\ ~fatal /\ ipc = "insertStore"
    /\ fpc = "drain" /\ old = insMap
    /\ fatal' = TRUE
    /\ UNCHANGED <<buckets, heap, bucketsMu, ipc, sample, stored, insMap, fpc, old,
                   mustVisit, visited, samples, ticks, nRecv, recvSum, doneSum,
                   snap, batchStart, win>>

\* line 110: s.bucketsMu.Lock()
IngestLock ==
    /\ ~fatal /\ ipc = "lock" /\ bucketsMu = "free"
    /\ bucketsMu' = "ingest"
    /\ ipc' = "store"
    /\ UNCHANGED <<buckets, heap, sample, stored, insMap, fpc, old, mustVisit,
                   visited, samples, fatal, ticks, nRecv, recvSum, doneSum, snap,
                   batchStart, win>>

\* line 111: s.buckets[sample.FreqCenter] = stored
IngestStore ==
    /\ ~fatal /\ ipc = "store"
    /\ heap' = [heap EXCEPT ![buckets] = MapPut(@, sample.FreqCenter, stored)]
    /\ ipc' = "unlock"
    /\ UNCHANGED <<buckets, bucketsMu, sample, stored, insMap, fpc, old, mustVisit,
                   visited, samples, fatal, ticks, nRecv, recvSum, doneSum, snap,
                   batchStart, win>>

\* line 112: s.bucketsMu.Unlock()
IngestUnlock ==
    /\ ~fatal /\ ipc = "unlock"
    /\ bucketsMu' = "free"
    /\ doneSum' = doneSum + sample.SampleCount
    /\ ipc' = "recv"
    /\ UNCHANGED <<buckets, heap, sample, stored, insMap, fpc, old, mustVisit,
                   visited, samples, fatal, ticks, nRecv, recvSum, snap, batchStart,
                   win>>

----------------------------------------------------------------------------
\* The flush goroutine (hackrf.go:77-92).

\* line 78: a tick arrives; line 83: old := s.buckets, without the mutex.
FlushTick ==
    /\ ~fatal /\ fpc = "wait" /\ ticks < MaxTicks
    /\ ticks' = ticks + 1
    /\ old' = buckets
    /\ fpc' = "lock"
    /\ UNCHANGED <<buckets, heap, bucketsMu, ipc, sample, stored, insMap, mustVisit,
                   visited, samples, fatal, nRecv, recvSum, doneSum, snap,
                   batchStart, win>>

\* line 84: s.bucketsMu.Lock()
FlushLock ==
    /\ ~fatal /\ fpc = "lock" /\ bucketsMu = "free"
    /\ bucketsMu' = "flush"
    /\ fpc' = "swap"
    /\ UNCHANGED <<buckets, heap, ipc, sample, stored, insMap, old, mustVisit,
                   visited, samples, fatal, ticks, nRecv, recvSum, doneSum, snap,
                   batchStart, win>>

\* line 85: s.buckets = map[uint64]sdr.Sample{}
FlushSwap ==
    /\ ~fatal /\ fpc = "swap"
    /\ heap' = Append(heap, EmptyMap)
    /\ buckets' = Len(heap) + 1
    /\ snap' = heap[old]
    /\ batchStart' = Len(samples)
    /\ fpc' = "unlock"
    /\ UNCHANGED <<bucketsMu, ipc, sample, stored, insMap, old, mustVisit, visited,
                   samples, fatal, ticks, nRecv, recvSum, doneSum, win>>

\* line 86: s.bucketsMu.Unlock()
FlushUnlock ==
    /\ ~fatal /\ fpc = "unlock"
    /\ bucketsMu' = "free"
    /\ fpc' = "range"
    /\ UNCHANGED <<buckets, heap, ipc, sample, stored, insMap, old, mustVisit,
                   visited, samples, fatal, ticks, nRecv, recvSum, doneSum, snap,
                   batchStart, win>>

\* line 88: the range loop over old starts. Entries present now are produced;
\* an entry created later may be produced or skipped (Go's range over a map).
FlushRange ==
    /\ ~fatal /\ fpc = "range"
    /\ mustVisit' = DOMAIN heap[old]
    /\ visited' = {}
    /\ fpc' = "drain"
    /\ UNCHANGED <<buckets, heap, bucketsMu, ipc, sample, stored, insMap, old,
                   samples, fatal, ticks, nRecv, recvSum, doneSum, snap,
                   batchStart, win>>

\* lines 88-89: the next entry of old is sent as it is now. The channel is
\* unbuffered (collection/spectre.go:97): the send completes only while the
\* exporter is receiving.
FlushSend ==
    /\ ~fatal /\ fpc = "drain"
    /\ sinkUp
    /\ \E k \in (DOMAIN heap[old]) \ visited :
          /\ samples' = Append(samples, heap[old][k])
          /\ visited' = visited \cup {k}
    /\ UNCHANGED <<buckets, heap, bucketsMu, ipc, sample, stored, insMap, fpc, old,
                   mustVisit, fatal, ticks, nRecv, recvSum, doneSum, snap,
                   batchStart, win>>

FlushAbandon ==
    /\ ~fatal /\ fpc = "drain"
    /\ fpc' = "wait"
    /\ UNCHANGED <<buckets, heap, bucketsMu, ipc, sample, stored, insMap, old,
                   mustVisit, visited, samples, fatal, ticks, nRecv, recvSum,
                   doneSum, snap, batchStart, win>>

\* line 90: the range loop ends; back to line 78.
FlushDone ==
    /\ ~fatal /\ fpc = "drain"
    /\ mustVisit \subseteq visited
    /\ fpc' = "wait"
    /\ UNCHANGED <<buckets, heap, bucketsMu, ipc, sample, stored, insMap, old,
                   mustVisit, visited, samples, fatal, ticks, nRecv, recvSum,
                   doneSum, snap, batchStart, win>>

\* collection/spectre.go:104: exporter.Write stops receiving from samples (it
\* blocks in a write of its own, or returns) while Sweep keeps running.
SinkStop ==
    /\ ~fatal /\ sinkUp
    /\ sinkUp' = FALSE
    /\ UNCHANGED aggVars

Init == AggInit /\ ParseIdle /\ sinkUp = TRUE /\ ToolsIdle

Next ==
    \/ \E r \in Readings : IngestRecv(r) /\ UNCHANGED <<parseVars, sinkUp, toolVars>>
    \/ IngestLookup /\ UNCHANGED <<parseVars, sinkUp, toolVars>>
    \/ IngestInsertLoad /\ UNCHANGED <<parseVars, sinkUp, toolVars>>
    \/ IngestInsertStore /\ UNCHANGED <<parseVars, sinkUp, toolVars>>
    \/ IngestInsertFatal /\ UNCHANGED <<parseVars, sinkUp, toolVars>>
    \/ IngestLock /\ UNCHANGED <<parseVars, sinkUp, toolVars>>
    \/ IngestStore /\ UNCHANGED <<parseVars, sinkUp, toolVars>>
    \/ IngestUnlock /\ UNCHANGED <<parseVars, sinkUp, toolVars>>
    \/ FlushTick /\ UNCHANGED <<parseVars, sinkUp, toolVars>>
    \/ FlushLock /\ UNCHANGED <<parseVars, sinkUp, toolVars>>
    \/ FlushSwap /\ UNCHANGED <<parseVars, sinkUp, toolVars>>
    \/ FlushUnlock /\ UNCHANGED <<parseVars, sinkUp, toolVars>>
    \/ FlushRange /\ UNCHANGED <<parseVars, sinkUp, toolVars>>
    \/ FlushSend /\ UNCHANGED <<parseVars, sinkUp, toolVars>>
    \/ FlushDone /\ UNCHANGED <<parseVars, sinkUp, toolVars>>
    \/ SinkStop /\ UNCHANGED <<parseVars, toolVars>>

Spec == Init /\ [][Next]_vars

----------------------------------------------------------------------------
\* SpecFold: the loop body and the tick body run as wholes.

\* All orders in which a range loop can produce the entries of map m.
Orders(m) ==
    {f \in [1..Cardinality(DOMAIN m) -> DOMAIN m] :
        \A i, j \in DOMAIN f : f[i] = f[j] => i = j}

\* lines 95-113 for one reading, with no tick inside.
FoldIngest(r) ==
    /\ nRecv < MaxReadings
    /\ LET k == r.FreqCenter
           live == heap[buckets]
       IN  heap' = [heap EXCEPT ![buckets] =
                      IF k \in DOMAIN live
                      THEN MapPut(live, k, Merge(live[k], r))
                      ELSE MapPut(live, k, r)]
    /\ nRecv' = nRecv + 1
    /\ recvSum' = recvSum + r.SampleCount
    /\ doneSum' = doneSum + r.SampleCount
    /\ win' = Append(win, r)
    /\ UNCHANGED <<buckets, bucketsMu, ipc, sample, stored, insMap, fpc, old,
                   mustVisit, visited, samples, fatal, ticks, snap, batchStart>>

\* lines 78-91 for one tick, with no reading inside.
FoldFlush ==
    /\ ticks < MaxTicks
    /\ ticks' = ticks + 1
    /\ old' = buckets
    /\ heap' = Append(heap, EmptyMap)
    /\ buckets' = Len(heap) + 1
    /\ snap' = heap[buckets]
    /\ batchStart' = Len(samples)
    /\ \E f \in Orders(heap[buckets]) :
          samples' = samples \o [i \in DOMAIN f |-> heap[buckets][f[i]]]
    /\ mustVisit' = DOMAIN heap[buckets]
    /\ visited' = DOMAIN heap[buckets]
    /\ win' = <<>>
    /\ UNCHANGED <<bucketsMu, ipc, sample, stored, insMap, fpc, fatal, nRecv,
                   recvSum, doneSum>>

NextFold ==
    \/ \E r \in FoldReadings : FoldIngest(r) /\ UNCHANGED <<parseVars, sinkUp, toolVars>>
    \/ FoldFlush /\ UNCHANGED <<parseVars, sinkUp, toolVars>>

SpecFold == Init /\ [][NextFold]_vars

----------------------------------------------------------------------------
\* Claims about one flush window (SpecFold).

\* The readings of the current window with center frequency k, in order.
WinOf(k) == SelectSeq(win, LAMBDA r : r.FreqCenter = k)

RECURSIVE SumSeqCounts(_)
SumSeqCounts(rs) ==
    IF rs = <<>> THEN 0 ELSE Head(rs).SampleCount + SumSeqCounts(Tail(rs))

RECURSIVE WeightedSum(_)
WeightedSum(rs) ==
    IF rs = <<>> THEN RatInt(0)
    ELSE RatAdd(RatMulInt(Head(rs).DBAvg, Head(rs).SampleCount), WeightedSum(Tail(rs)))

WeightedMean(rs) == RatDivInt(WeightedSum(rs), SumSeqCounts(rs))
MinDB(rs) == CHOOSE x \in {r.DBAvg : r \in Range(rs)} :
                \A y \in {r.DBAvg : r \in Range(rs)} : RatLeq(x, y)
MaxDB(rs) == CHOOSE x \in {r.DBAvg : r \in Range(rs)} :
                \A y \in {r.DBAvg : r \in Range(rs)} : RatLeq(y, x)

RECURSIVE FoldSeq(_, _)
FoldSeq(acc, rs) == IF rs = <<>> THEN acc ELSE FoldSeq(Merge(acc, Head(rs)), Tail(rs))

Perms(n) == {f \in [1..n -> 1..n] : \A i, j \in 1..n : f[i] = f[j] => i = j}

\* C5: ingesting the readings of a window for one center frequency in any
\* other order yields the same aggregate in every field.
C5_MergeOrderIndependent ==
    \A k \in DOMAIN heap[buckets] :
        LET rs == WinOf(k)
        IN  \A p \in Perms(Len(rs)) :
              LET qs == [i \in 1..Len(rs) |-> rs[p[i]]]
              IN  FoldSeq(Head(qs), Tail(qs)) = heap[buckets][k]

TimeMax(a, b) == IF TimeBefore(a, b) THEN b ELSE a

\* C18: within one flush window a merge only widens [Start, End]. Every
\* step that merges a reading into an existing bucket leaves Start no later
\* than it was and sets End to the later of the previous End and the
\* reading's End.
C18_MergeWidensInterval ==
    [][(nRecv' = nRecv + 1 /\ win'[Len(win')].FreqCenter \in DOMAIN heap[buckets]) =>
          LET r == win'[Len(win')]
              before == heap[buckets][r.FreqCenter]
              after == heap'[buckets][r.FreqCenter]
          IN  /\ TimeLeq(after.Start, before.Start)
              /\ after.End = TimeMax(before.End, r.End)]_vars

----------------------------------------------------------------------------
\* Claims about the interleaved aggregator (Spec).

\* The aggregates sent since the last swap.
Batch == SubSeq(samples, batchStart + 1, Len(samples))

\* C1: no reading is counted twice. At every point the SampleCount sent on
\* the output channel plus the SampleCount held in the live table is at most
\* the SampleCount of the readings received so far.
C1_NoReadingCountedTwice == SumSent + SumLive <= recvSum

\* C2: no reading is dropped. Whenever the ingest loop is between readings
\* and the flush goroutine is between ticks, every reading whose loop body
\* completed is accounted for in the live table or in a sent aggregate.
C2_NoReadingDropped ==
    (~fatal /\ ipc = "recv" /\ fpc = "wait") => SumSent + SumLive >= doneSum

\* C3: a flush emits exactly the values the replaced table held at the
\* moment of the swap: every aggregate sent since the swap is the value the
\* table held for its center frequency at the swap, no center frequency is
\* sent twice, and once the flush is over every entry has been sent (so an
\* empty table yields an empty batch).
C3_FlushEmitsSwapSnapshot ==
    /\ \A i \in DOMAIN Batch :
          /\ Batch[i].FreqCenter \in DOMAIN snap
          /\ Batch[i] = snap[Batch[i].FreqCenter]
    /\ \A i, j \in DOMAIN Batch :
          Batch[i].FreqCenter = Batch[j].FreqCenter => i = j
    /\ (fpc = "wait" => {Batch[i].FreqCenter : i \in DOMAIN Batch} = DOMAIN snap)

\* C6: every aggregate in the live table and every aggregate sent satisfies
\* DBLow <= DBAvg <= DBHigh and End >= Start.
C6_AggregateInvariant ==
    \A a \in Range(heap[buckets]) \cup Range(samples) :
        /\ RatLeq(a.DBLow, a.DBAvg)
        /\ RatLeq(a.DBAvg, a.DBHigh)
        /\ TimeLeq(a.Start, a.End)

\* C17: a sink that has stopped receiving does not stop the ingest loop.
\* Once the exporter no longer receives, the process is still running (the
\* ingest loop goes on taking readings), and the ingest loop is never
\* waiting for bucketsMu while the flush goroutine holds it blocked in its
\* send: only the flush goroutine waits for the sink.
C17_IngestOutlivesStalledSink ==
    ~sinkUp =>
        /\ ~fatal
        /\ ~(ipc = "lock" /\ bucketsMu = "flush" /\ fpc = "drain")

----------------------------------------------------------------------------
\* Text. A line is a sequence of one-character strings. The lines of the
\* model are written with digits, "-", ".", ":", ",", " " and "x" (a
\* character no field accepts), so the parsers below decide every field the
\* model feeds them as strconv and time decide it; exponents, "inf", "nan"
\* and hexadecimal floats are outside that alphabet.

Digits == {"0", "1", "2", "3", "4", "5", "6", "7", "8", "9"}
DigitVal(c) ==
    CASE c = "0" -> 0 [] c = "1" -> 1 [] c = "2" -> 2 [] c = "3" -> 3
      [] c = "4" -> 4 [] c = "5" -> 5 [] c = "6" -> 6 [] c = "7" -> 7
      [] c = "8" -> 8 [] c = "9" -> 9

AllDigits(s) == \A i \in DOMAIN s : s[i] \in Digits

RECURSIVE DecVal(_)
DecVal(s) == IF s = <<>> THEN 0 ELSE DecVal(SubSeq(s, 1, Len(s) - 1)) * 10 + DigitVal(s[Len(s)])

RECURSIVE Pow10(_)
Pow10(k) == IF k = 0 THEN 1 ELSE 10 * Pow10(k - 1)

\* strings.Split(s, sep) for a non-empty sep.
MatchAt(s, sep, i) == i + Len(sep) - 1 <= Len(s) /\ SubSeq(s, i, i + Len(sep) - 1) = sep

RECURSIVE Split(_, _)
Split(s, sep) ==
    IF \E i \in 1..Len(s) : MatchAt(s, sep, i)
    THEN LET i == CHOOSE i \in 1..Len(s) :
                    MatchAt(s, sep, i) /\ \A j \in 1..(i - 1) : ~MatchAt(s, sep, j)
         IN  <<SubSeq(s, 1, i - 1)>> \o Split(SubSeq(s, i + Len(sep), Len(s)), sep)
    ELSE <<s>>

FieldSep == <<",", " ">>

\* scanRow's strings.Split(scanner.Text(), ", ") (hackrf.go:133).
SplitRow(s) == Split(s, FieldSep)

\* strconv.ParseUint(s, 10, 64): one or more decimal digits, nothing else.
ParseUintOk(s) == s # <<>> /\ AllDigits(s)

\* parseUint (hackrf.go:118-120): the text before the first "." is parsed.
parseUintOk(num) == ParseUintOk(Split(num, <<".">>)[1])
parseUintVal(num) == DecVal(Split(num, <<".">>)[1])

\* strconv.ParseFloat(s, 64) on decimal text: an optional sign, digits with
\* at most one ".", at least one digit.
Unsigned(s) == IF s # <<>> /\ s[1] \in {"-", "+"} THEN Tail(s) ELSE s
ParseFloatOk(s) ==
    LET parts == Split(Unsigned(s), <<".">>)
    IN  /\ Len(parts) <= 2
        /\ \A i \in DOMAIN parts : AllDigits(parts[i])
        /\ \E i \in DOMAIN parts : parts[i] # <<>>
ParseFloatVal(s) ==
    LET parts == Split(Unsigned(s), <<".">>)
        frac == IF Len(parts) = 2 THEN parts[2] ELSE <<>>
        mag == Rat(DecVal(parts[1]) * Pow10(Len(frac)) + DecVal(frac), Pow10(Len(frac)))
    IN  IF s[1] = "-" THEN [mag EXCEPT !.n = -mag.n] ELSE mag

\* time.Parse(time.RFC3339, v) for v ending in "Z":
\* YYYY-MM-DDThh:mm:ss, an optional fraction of a second, "Z".
IsLeap(y) == (y % 4 = 0 /\ y % 100 # 0) \/ y % 400 = 0
DaysIn(y, m) ==
    IF m = 2 THEN (IF IsLeap(y) THEN 29 ELSE 28)
    ELSE IF m \in {4, 6, 9, 11} THEN 30 ELSE 31

\* Days from 1970-01-01 to the civil date y-m-d.
DaysFromCivil(y, m, d) ==
    LET yy == IF m <= 2 THEN y - 1 ELSE y
        era == yy \div 400
        yoe == yy - era * 400
        mp == IF m > 2 THEN m - 3 ELSE m + 9
        doy == (153 * mp + 2) \div 5 + d - 1
        doe == yoe * 365 + yoe \div 4 - yoe \div 100 + doy
    IN  era * 146097 + doe - 719468

TimeShapeOk(v) ==
    /\ Len(v) >= 20
    /\ v[5] = "-" /\ v[8] = "-" /\ v[11] = "T" /\ v[14] = ":" /\ v[17] = ":"
    /\ AllDigits(SubSeq(v, 1, 4)) /\ AllDigits(SubSeq(v, 6, 7))
    /\ AllDigits(SubSeq(v, 9, 10)) /\ AllDigits(SubSeq(v, 12, 13))
    /\ AllDigits(SubSeq(v, 15, 16)) /\ AllDigits(SubSeq(v, 18, 19))
    /\ v[Len(v)] = "Z"
    /\ \/ Len(v) = 20
       \/ /\ Len(v) >= 22
          /\ v[20] = "."
          /\ AllDigits(SubSeq(v, 21, Len(v) - 1))

TimeParseOk(v) ==
    /\ TimeShapeOk(v)
    /\ LET y == DecVal(SubSeq(v, 1, 4))
           m == DecVal(SubSeq(v, 6, 7))
           d == DecVal(SubSeq(v, 9, 10))
       IN  /\ m \in 1..12
           /\ d \in 1..DaysIn(y, m)
           /\ DecVal(SubSeq(v, 12, 13)) \in 0..23
           /\ DecVal(SubSeq(v, 15, 16)) \in 0..59
           /\ DecVal(SubSeq(v, 18, 19)) \in 0..59

TimeParseVal(v) ==
    LET y == DecVal(SubSeq(v, 1, 4))
        m == DecVal(SubSeq(v, 6, 7))
        d == DecVal(SubSeq(v, 9, 10))
        frac == IF Len(v) = 20 THEN <<>> ELSE SubSeq(v, 21, Len(v) - 1)
        f9 == IF Len(frac) > 9 THEN SubSeq(frac, 1, 9) ELSE frac
    IN  Time(DaysFromCivil(y, m, d) * 86400 + DecVal(SubSeq(v, 12, 13)) * 3600
               + DecVal(SubSeq(v, 15, 16)) * 60 + DecVal(SubSeq(v, 18, 19)),
             DecVal(f9) * Pow10(9 - Len(f9)))

\* calculateBinRange (hackrf.go:123-130).
calculateBinRangeUnclipped(freqLow, freqHigh, binWidth, binNum) ==
    LET low == freqLow + (binNum * binWidth)
    IN  <<low, low + binWidth>>

calculateBinRange(freqLow, freqHigh, binWidth, binNum) ==
    LET low == freqLow + (binNum * binWidth)
        high == low + binWidth
    IN  <<low, IF high > freqHigh THEN freqHigh ELSE high>>

----------------------------------------------------------------------------
\* The lines the sweep tool prints in the model.

RECURSIVE Join(_, _)
Join(fields, sep) ==
    IF Len(fields) = 1 THEN fields[1]
    ELSE fields[1] \o sep \o Join(Tail(fields), sep)

DateOk == <<"2", "0", "2", "1", "-", "1", "2", "-", "0", "1">>
DateBad == <<"2", "0", "2", "1", "-", "1", "3", "-", "0", "1">>
ClockOk == <<"1", "0", ":", "0", "0", ":", "0", "1">>
ClockFrac == <<"1", "0", ":", "0", "0", ":", "0", "1", ".", "5">>
N5 == <<"5">>
N10 == <<"1", "0">>
N10f == <<"1", "0", ".", "0", "0">>
N100 == <<"1", "0", "0">>
N105 == <<"1", "0", "5">>
N115 == <<"1", "1", "5">>
N120 == <<"1", "2", "0">>
N125 == <<"1", "2", "5">>
N2 == <<"2">>
Garbage == <<"x">>
DbA == <<"-", "2", "0", ".", "0">>
DbB == <<"-", "1", "8", ".", "0">>
DbC == <<"-", "1", "8", ".", "5">>

\* The row of the specification's example, as it is printed there (fields
\* separated by "," alone) and as the sweep tools print it (", ").
C8Fields == <<DateOk, ClockOk, <<"4", "0", "0", "0", "0", "0", "0", "0", "0">>,
              <<"4", "0", "0", "0", "2", "5", "0", "0", "0">>,
              <<"1", "2", "5", "0", "0">>, N10, DbA, DbB>>
C8RowAsPrinted == Join(C8Fields, <<",">>)
C8RowSpaced == Join(C8Fields, FieldSep)

Row(fields) == Join(fields, FieldSep)

GoodRows ==
    {C8RowSpaced,
     \* two bins of 10 Hz tiling 100..120, a fraction of a second, "10.00"
     Row(<<DateOk, ClockFrac, N100, N120, N10f, N2, DbA, DbC>>),
     \* three bins of 5 Hz tiling 100..115
     Row(<<DateOk, ClockOk, N100, N115, N5, N2, DbA, DbB, DbC>>),
     \* the span does not divide evenly: the last bin is 110..115
     Row(<<DateOk, ClockOk, N100, N115, N10, N2, DbA, DbB>>),
     \* two bins of 10 Hz in a segment of 25 Hz: the bins stop at 120
     Row(<<DateOk, ClockOk, N100, N125, N10, N2, DbA, DbB>>),
     \* two bins of 10 Hz in a segment of 5 Hz: the second bin starts past it
     Row(<<DateOk, ClockOk, N100, N105, N10, N2, DbA, DbB>>),
     \* six fields, no bin
     Row(<<DateOk, ClockOk, N100, N120, N10, N2>>)}

BadRows ==
    {C8RowAsPrinted,
     \* fewer than six fields
     Garbage,
     Row(<<DateOk, ClockOk, N100, N120, N10>>),
     \* an unparsable number in each of the four numeric fields
     Row(<<DateOk, ClockOk, Garbage, N120, N10, N2, DbA, DbB>>),
     Row(<<DateOk, ClockOk, N100, Garbage, N10, N2, DbA, DbB>>),
     Row(<<DateOk, ClockOk, N100, N120, Garbage, N2, DbA, DbB>>),
     Row(<<DateOk, ClockOk, N100, N120, N10, Garbage, DbA, DbB>>),
     \* month 13
     Row(<<DateBad, ClockOk, N100, N120, N10, N2, DbA, DbB>>),
     \* an unparsable dB value in the first bin, and in the second
     Row(<<DateOk, ClockOk, N100, N120, N10, N2, Garbage, DbB>>),
     Row(<<DateOk, ClockOk, N100, N120, N10, N2, DbA, Garbage>>)}

Rows == GoodRows \cup BadRows

----------------------------------------------------------------------------
\* SpecParse: the parser goroutine (hackrf.go:66-73) and scanRow
\* (hackrf.go:131-181). rawSamples is unbuffered: each send is a step of
\* its own, taken when the ingest loop receives.

Streams == UNION {[1..n -> Rows] : n \in 1..MaxLines}

ParseInit ==
    /\ input \in Streams
    /\ stream = input
    /\ cur = <<>>
    /\ ppc = "scan"
    /\ hdr = <<>>
    /\ binIdx = 0
    /\ rawSamples = <<>>
    /\ rowOut = <<>>
    /\ rowStatus = "none"

\* line 67: scanner.Scan() delivers the next line; line 68 calls scanRow.
ParseScan ==
    /\ ppc = "scan" /\ stream # <<>>
    /\ cur' = Head(stream)
    /\ stream' = Tail(stream)
    /\ ppc' = "row"
    /\ hdr' = <<>>
    /\ binIdx' = 0
    /\ rowOut' = <<>>
    /\ rowStatus' = "running"
    /\ UNCHANGED <<input, rawSamples>>

\* line 67: the sweep tool's output has ended; the loop is over.
ParseEOF ==
    /\ ppc = "scan" /\ stream = <<>>
    /\ ppc' = "eof"
    /\ UNCHANGED <<input, stream, cur, hdr, binIdx, rawSamples, rowOut, rowStatus>>

\* lines 133-136: row[5] is read whatever len(row) is; with fewer than six
\* fields the index is out of range and the goroutine panics.
ScanRowPanic ==
    /\ ppc = "row"
    /\ Len(SplitRow(cur)) < 6
    /\ ppc' = "panic"
    /\ rowStatus' = "panic"
    /\ UNCHANGED <<input, stream, cur, hdr, binIdx, rawSamples, rowOut>>

HeaderOk(row) ==
    /\ parseUintOk(row[6]) /\ parseUintOk(row[3])
    /\ parseUintOk(row[4]) /\ parseUintOk(row[5])

\* lines 136-151: one of the four parseUint calls fails; scanRow returns the
\* error, lines 69-70 log it and continue.
ScanRowHeadErr ==
    /\ ppc = "row"
    /\ LET row == SplitRow(cur)
       IN  Len(row) >= 6 /\ ~HeaderOk(row)
    /\ ppc' = "scan"
    /\ rowStatus' = "err"
    /\ UNCHANGED <<input, stream, cur, hdr, binIdx, rawSamples, rowOut>>

\* lines 133-151: the four numbers parse.
ScanRowHead ==
    /\ ppc = "row"
    /\ LET row == SplitRow(cur)
       IN  /\ Len(row) >= 6 /\ HeaderOk(row)
           /\ hdr' = [row |-> row,
                      numBins |-> Len(row) - 6,
                      sampleCount |-> parseUintVal(row[6]),
                      freqLow |-> parseUintVal(row[3]),
                      freqHigh |-> parseUintVal(row[4]),
                      binWidth |-> parseUintVal(row[5])]
    /\ binIdx' = 0
    /\ ppc' = "bin"
    /\ UNCHANGED <<input, stream, cur, rawSamples, rowOut, rowStatus>>

TimeText(row) == row[1] \o <<"T">> \o row[2] \o <<"Z">>

BinOk(row, i) == TimeParseOk(TimeText(row)) /\ ParseFloatOk(row[i + 7])

\* lines 156-164: the timestamp or the dB value of bin i does not parse;
\* scanRow returns the error, lines 69-70 log it and continue.
ScanRowBinErr ==
    /\ ppc = "bin" /\ binIdx < hdr.numBins
    /\ ~BinOk(hdr.row, binIdx)
    /\ ppc' = "scan"
    /\ rowStatus' = "err"
    /\ UNCHANGED <<input, stream, cur, hdr, binIdx, rawSamples, rowOut>>

\* lines 154-178: bin i is sent on rawSamples.
ScanRowSend ==
    /\ ppc = "bin" /\ binIdx < hdr.numBins
    /\ BinOk(hdr.row, binIdx)
    /\ LET r == calculateBinRange(hdr.freqLow, hdr.freqHigh, hdr.binWidth, binIdx)
           s == MkSample(r[1], r[2], ParseFloatVal(hdr.row[binIdx + 7]),
                         hdr.sampleCount, TimeParseVal(TimeText(hdr.row)))
       IN  /\ rawSamples' = Append(rawSamples, s)
           /\ rowOut' = Append(rowOut, s)
    /\ binIdx' = binIdx + 1
    /\ UNCHANGED <<input, stream, cur, ppc, hdr, rowStatus>>

\* lines 153 and 180: the loop is over, scanRow returns nil.
ScanRowReturn ==
    /\ ppc = "bin" /\ binIdx >= hdr.numBins
    /\ ppc' = "scan"
    /\ rowStatus' = "ok"
    /\ UNCHANGED <<input, stream, cur, hdr, binIdx, rawSamples, rowOut>>

InitParse == AggInit /\ ParseInit /\ sinkUp = TRUE /\ ToolsIdle

NextParse ==
    \/ ParseScan /\ UNCHANGED <<aggVars, sinkUp, toolVars>>
    \/ ParseEOF /\ UNCHANGED <<aggVars, sinkUp, toolVars>>
    \/ ScanRowPanic /\ UNCHANGED <<aggVars, sinkUp, toolVars>>
    \/ ScanRowHeadErr /\ UNCHANGED <<aggVars, sinkUp, toolVars>>
    \/ ScanRowHead /\ UNCHANGED <<aggVars, sinkUp, toolVars>>
    \/ ScanRowBinErr /\ UNCHANGED <<aggVars, sinkUp, toolVars>>
    \/ ScanRowSend /\ UNCHANGED <<aggVars, sinkUp, toolVars>>
    \/ ScanRowReturn /\ UNCHANGED <<aggVars, sinkUp, toolVars>>

SpecParse == InitParse /\ [][NextParse]_vars

----------------------------------------------------------------------------
\* Claims about the parser (SpecParse).

\* The samples rs, in bin order, tile the segment [lo, hi] with bins of
\* width w: there are n of them, each starts where the one before ends, the
\* first starts at lo, the last ends at hi, every bin but the last is w wide,
\* the last is no wider than w, no bin is empty, and each center lies within
\* its bin.
Tiles(rs, lo, hi, w, n) ==
    /\ Len(rs) = n
    /\ IF n = 0 THEN lo = hi
       ELSE rs[1].FreqLow = lo /\ rs[n].FreqHigh = hi
    /\ \A i \in 1..(n - 1) :
          /\ rs[i].FreqHigh = rs[i + 1].FreqLow
          /\ rs[i].FreqHigh - rs[i].FreqLow = w
    /\ \A i \in 1..n :
          /\ rs[i].FreqLow < rs[i].FreqHigh
          /\ rs[i].FreqHigh - rs[i].FreqLow <= w
          /\ rs[i].FreqLow <= rs[i].FreqCenter
          /\ rs[i].FreqCenter <= rs[i].FreqHigh

\* The row's N bins of width w reach the end of the segment and the last of
\* them starts inside it.
BinsFitSegment ==
    /\ hdr.numBins >= 1
    /\ (hdr.numBins - 1) * hdr.binWidth < hdr.freqHigh - hdr.freqLow
    /\ hdr.freqHigh - hdr.freqLow <= hdr.numBins * hdr.binWidth

\* C7 as claimed: every row that scanRow accepts is decomposed into samples
\* that tile [segmentLow, segmentHigh].
C7_EveryRowTilesSegment ==
    rowStatus = "ok" =>
        Tiles(rowOut, hdr.freqLow, hdr.freqHigh, hdr.binWidth, hdr.numBins)

\* C7 as amended: a row that scanRow accepts and whose N >= 1 bins satisfy
\* (N-1)*w < segmentHigh - segmentLow <= N*w is decomposed into N samples
\* that tile [segmentLow, segmentHigh], only the last bin clipped.
C7_FittingRowTilesSegment ==
    (rowStatus = "ok" /\ BinsFitSegment) =>
        Tiles(rowOut, hdr.freqLow, hdr.freqHigh, hdr.binWidth, hdr.numBins)

\* An accepted row of two bins whose last bin is narrower than the bin width.
C7_Witness ==
    /\ rowStatus = "ok" /\ BinsFitSegment
    /\ hdr.numBins >= 2
    /\ rowOut[Len(rowOut)].FreqHigh - rowOut[Len(rowOut)].FreqLow < hdr.binWidth

\* What the example row is said to parse into: two samples with centers
\* 400006250 and 400018750, SampleCount 10, dB -20.0 and -18.0 with
\* DBLow = DBHigh = DBAvg, Start = End = 2021-12-01T10:00:01Z.
C8Expected(rs) ==
    /\ Len(rs) = 2
    /\ rs[1].FreqCenter = 400006250 /\ rs[2].FreqCenter = 400018750
    /\ rs[1].DBAvg = RatInt(-20) /\ rs[2].DBAvg = RatInt(-18)
    /\ \A i \in 1..2 :
          /\ rs[i].SampleCount = 10
          /\ rs[i].DBLow = rs[i].DBAvg /\ rs[i].DBHigh = rs[i].DBAvg
          /\ rs[i].Start = Time(1638352801, 0)
          /\ rs[i].End = Time(1638352801, 0)

\* C8 as claimed: once scanRow is done with the row
\* "2021-12-01,10:00:01,400000000,400025000,12500,10,-20.0,-18.0" it has
\* returned nil and sent exactly the two samples of the example.
C8_ExampleRowAsPrinted ==
    (cur = C8RowAsPrinted /\ rowStatus \in {"ok", "err", "panic"}) =>
        (rowStatus = "ok" /\ C8Expected(rowOut))

\* C8 as amended: once scanRow is done with the row
\* "2021-12-01, 10:00:01, 400000000, 400025000, 12500, 10, -20.0, -18.0"
\* (fields separated by a comma and a space) it has returned nil and sent
\* exactly the two samples of the example.
C8_ExampleRowSpaced ==
    (cur = C8RowSpaced /\ rowStatus \in {"ok", "err", "panic"}) =>
        (rowStatus = "ok" /\ C8Expected(rowOut))

\* scanRow has returned from the comma-and-space example row.
C8_Witness == cur = C8RowSpaced /\ rowStatus = "ok" /\ Len(rowOut) = 2

\* C9: the parse loop survives every line: scanRow never takes the
\* goroutine down, and after a line that fails to parse the loop is back at
\* scanner.Scan() for the lines that follow.
C9_ParseLoopSurvives ==
    /\ ppc # "panic"
    /\ (rowStatus = "err" => ppc \in {"scan", "row", "bin", "eof"})

\* C10: a row that fails to parse is skipped as a whole: when scanRow
\* returns an error it has sent no sample for that row.
C10_FailedRowEmitsNothing == rowStatus = "err" => rowOut = <<>>

\* The lock discipline and the flush order of SDR.Sweep (hackrf.go:75-113),
\* checked under Spec.

\* A step of the ingest loop that reads or writes s.buckets or an entry of
\* a table (lines 96, 98, 111), and a step of the flusher that reads or
\* writes s.buckets (lines 83, 85).
IngestAccess == ipc \in {"lookup", "insertLoad", "insertStore", "store"} /\ ipc' # ipc
FlushAccess == (fpc = "wait" /\ fpc' = "lock") \/ (fpc = "swap" /\ fpc' = "unlock")

\* C25: the ingest loop and the flusher never access the same bucket table
\* concurrently. Every read and write of s.buckets and of a table's entries
\* is made by a goroutine that holds bucketsMu, and once the flusher has
\* swapped a table out to drain it, that table is not written again.
C25_LockDiscipline ==
    [][/\ IngestAccess => bucketsMu = "ingest"
       /\ FlushAccess => bucketsMu = "flush"
       /\ fpc \in {"unlock", "range", "drain"} => heap'[old] = heap[old]]_vars

\* C26: aggregates reach the output channel one batch at a time in flush
\* order. Every send is of an entry of the table swapped out last, the sends
\* since that swap are one per entry produced by the range loop, a tick is
\* taken and the live table is swapped only when the batch before it has
\* been sent completely, and nothing is swapped while a batch is being sent.
C26_BatchesInFlushOrder ==
    [][/\ samples' # samples =>
             /\ fpc = "drain" /\ old' = old
             /\ \E k \in DOMAIN heap[old] : samples' = Append(samples, heap[old][k])
       /\ fpc = "drain" => Len(samples) - batchStart = Cardinality(visited)
       /\ ticks' # ticks => fpc = "wait"
       /\ buckets' # buckets =>
             /\ fpc = "swap" /\ mustVisit \subseteq visited
             /\ batchStart' = Len(samples)
       /\ fpc \in {"unlock", "range", "drain"} =>
             /\ buckets' = buckets /\ old' = old /\ batchStart' = batchStart
             /\ ticks' = ticks]_vars

C26_Witness ==
    /\ ticks = 2 /\ fpc = "drain"
    /\ batchStart > 0 /\ Len(samples) > batchStart

----------------------------------------------------------------------------
\* extraction.GetColor (unnamed/part_005:18-28, 145-168).
\*
\* The level arithmetic is uint16 and the channel differences are uint8, both
\* wrapping; the model keeps the widths. fract and the channel values are
\* float64 in the program; the model computes the truncation of the exact
\* value (the exact values of the model are never close enough to an integer
\* for float64 rounding to change the truncation).

MaxUint16 == 65535

Uint16(x) == x % 65536
Uint8(x) == x % 256

RGBA(r, g, b, a) == [R |-> r, G |-> g, B |-> b, A |-> a]

\* colors[i + 1] is the program's colors[i].
colors ==
    <<RGBA(0, 0, 0, 255), RGBA(0, 0, 255, 255), RGBA(0, 255, 255, 255),
      RGBA(0, 255, 0, 255), RGBA(255, 255, 0, 255), RGBA(255, 0, 0, 255),
      RGBA(255, 255, 255, 255)>>

\* line 151
currV(i) == Uint16((i * MaxUint16) \div Len(colors))

\* int(math.Max(0.0, float64(i-1))), lines 153-154
prevIndex(i) == IF i - 1 > 0 THEN i - 1 ELSE 0

\* line 154, in uint16 throughout
diff(i) == Uint16(Uint16(prevIndex(i) * MaxUint16) \div Len(colors) - currV(i))

\* uint8(f) for a float64 f with integer part t. Go leaves the result
\* implementation-specific when t is not a uint8 value: builds either keep
\* the low eight bits or saturate.
Conversions == {"wrap", "saturate"}
FloatToUint8(t, conv) ==
    IF t \in 0..255 THEN t
    ELSE IF conv = "wrap" THEN Uint8(t)
    ELSE IF t < 0 THEN 0 ELSE 255

\* lines 155-163 for one channel: uint8(float64(prev-curr)*fract + float64(curr))
\* with fract = float64(lvl) - float64(currV)/float64(diff), or 0.0 when
\* diff is 0. The value is n - qn/diff with n, qn >= 0.
Channel(prev, curr, l, i, conv) ==
    LET d == Uint8(prev - curr)
        n == d * l + curr
        qn == d * currV(i)
        t == IF diff(i) = 0 THEN curr
             ELSE IF qn = 0 THEN n
             ELSE LET up == (qn + diff(i) - 1) \div diff(i)
                  IN  IF n >= up THEN n - up ELSE n - (qn \div diff(i))
    IN  FloatToUint8(t, conv)

\* lines 149-167
GetColor(l, conv) ==
    LET above == {i \in 0..(Len(colors) - 1) : l < currV(i)}
    IN  IF above = {} THEN colors[Len(colors)]
        ELSE LET i == CHOOSE x \in above : \A y \in above : x <= y
                 currC == colors[i + 1]
                 prevC == colors[prevIndex(i) + 1]
             IN  RGBA(Channel(prevC.R, currC.R, l, i, conv),
                      Channel(prevC.G, currC.G, l, i, conv),
                      Channel(prevC.B, currC.B, l, i, conv),
                      Channel(prevC.A, currC.A, l, i, conv))

\* SpecColor: GetColor is called once with any uint16 level.
Levels == 0..MaxUint16

ColorInit ==
    /\ lvl \in Levels
    /\ colour = <<>>
    /\ cpc = "call"

GetColorReturn ==
    /\ cpc = "call"
    /\ \E conv \in Conversions : colour' = GetColor(lvl, conv)
    /\ cpc' = "done"
    /\ UNCHANGED lvl

InitColor ==
    /\ AggInit /\ ParseIdle /\ sinkUp = TRUE
    /\ RenderIdle /\ ColorInit /\ SQLIdle /\ SendIdle /\ StagesIdle

NextColor ==
    GetColorReturn /\ UNCHANGED <<aggVars, parseVars, sinkUp, renderVars, sqlVars, sendVars, stageVars>>

SpecColor == InitColor /\ [][NextColor]_vars

\* C14: the ends of the gradient. GetColor(0) is the first colour (black),
\* GetColor(65535) is the last colour (white), and every level at or above
\* the threshold of the top stop is white.
C14_GradientEnds ==
    cpc = "done" =>
        /\ (lvl = 0 => colour = colors[1])
        /\ (lvl = MaxUint16 => colour = colors[Len(colors)])
        /\ (lvl >= currV(Len(colors) - 1) => colour = colors[Len(colors)])

\* The gradient interval of a level: the index i of the first stop whose
\* threshold exceeds the level, when there is one and it has a stop below it.
StopAbove(l) ==
    LET above == {i \in 0..(Len(colors) - 1) : l < currV(i)}
    IN  IF above = {} THEN Len(colors)
        ELSE CHOOSE x \in above : \A y \in above : x <= y

\* c lies between a and b, whichever is larger.
Between(c, a, b) == (a <= c /\ c <= b) \/ (b <= c /\ c <= a)

\* The channel value at fractional position (l - lo) / (hi - lo) on the way
\* from `from` to `to`, to within one unit of truncation.
Proportional(c, from, to, l, lo, hi) ==
    LET scaled == (to - from) * (l - lo)
    IN  /\ (c - from) * (hi - lo) - scaled < hi - lo
        /\ scaled - (c - from) * (hi - lo) < hi - lo

\* C21: for a level between the thresholds of two adjacent stops, each of
\* R, G, B of GetColor(level) lies between the two stops' channel values, at
\* the level's fractional position on the way from the lower stop to the
\* upper stop, and alpha is 255.
C21_InterpolatesBetweenStops ==
    (cpc = "done" /\ StopAbove(lvl) \in 1..(Len(colors) - 1)) =>
        LET i == StopAbove(lvl)
            lower == colors[i]
            upper == colors[i + 1]
            lo == currV(i - 1)
            hi == currV(i)
        IN  /\ Between(colour.R, lower.R, upper.R)
            /\ Between(colour.G, lower.G, upper.G)
            /\ Between(colour.B, lower.B, upper.B)
            /\ Proportional(colour.R, lower.R, upper.R, lvl, lo, hi)
            /\ Proportional(colour.G, lower.G, upper.G, lvl, lo, hi)
            /\ Proportional(colour.B, lower.B, upper.B, lvl, lo, hi)
            /\ colour.A = 255

----------------------------------------------------------------------------
\* export.SQL.Write (unnamed/part_004:49-73): the sqlite/mysql sink.
\* Lines 67-69 only log and are left out.

MaxSamples == 12

SQLInit ==
    /\ sqlpc = "create"
    /\ counts = <<>>
    /\ sqlRecv = 0
    /\ sqlRows = 0
    /\ sqlRet = "none"

\* lines 50-52: the table cannot be created; Write returns the error.
SQLCreateTableErr ==
    /\ sqlpc = "create"
    /\ sqlRet' = "err"
    /\ sqlpc' = "returned"
    /\ UNCHANGED <<counts, sqlRecv, sqlRows>>

\* lines 50, 54-58
SQLCreateTable ==
    /\ sqlpc = "create"
    /\ counts' = [error |-> 0, success |-> 0, total |-> 0]
    /\ sqlpc' = "loop"
    /\ UNCHANGED <<sqlRecv, sqlRows, sqlRet>>

CountNothing(c) == c

\* line 60
CountTotal(c) == [c EXCEPT !.total = @ + 1]
\* line 62
CountError(c) == [c EXCEPT !.error = @ + 1]
\* line 66
CountSuccess(c) == [c EXCEPT !.success = @ + 1]

\* lines 59-61, 66: a sample is received and its INSERT succeeds.
SQLInsert ==
    /\ sqlpc = "loop" /\ sqlRecv < MaxSamples
    /\ sqlRecv' = sqlRecv + 1
    /\ sqlRows' = sqlRows + 1
    /\ counts' = CountSuccess(CountTotal(counts))
    /\ UNCHANGED <<sqlpc, sqlRet>>

\* lines 59-64: a sample is received and its INSERT fails; continue.
SQLInsertErr ==
    /\ sqlpc = "loop" /\ sqlRecv < MaxSamples
    /\ sqlRecv' = sqlRecv + 1
    /\ counts' = CountError(CountTotal(counts))
    /\ UNCHANGED <<sqlpc, sqlRows, sqlRet>>

\* lines 59, 72: the channel is closed; Write returns nil.
SQLClosed ==
    /\ sqlpc = "loop"
    /\ sqlRet' = "nil"
    /\ sqlpc' = "returned"
    /\ UNCHANGED <<counts, sqlRecv, sqlRows>>

InitSQL ==
    /\ AggInit /\ ParseIdle /\ sinkUp = TRUE
    /\ RenderIdle /\ ColorIdle /\ SQLInit /\ SendIdle /\ StagesIdle

NextSQL ==
    \/ SQLCreateTableErr /\ UNCHANGED <<aggVars, parseVars, sinkUp, renderVars, colorVars, sendVars, stageVars>>
    \/ SQLCreateTable /\ UNCHANGED <<aggVars, parseVars, sinkUp, renderVars, colorVars, sendVars, stageVars>>
    \/ SQLInsert /\ UNCHANGED <<aggVars, parseVars, sinkUp, renderVars, colorVars, sendVars, stageVars>>
    \/ SQLInsertErr /\ UNCHANGED <<aggVars, parseVars, sinkUp, renderVars, colorVars, sendVars, stageVars>>
    \/ SQLClosed /\ UNCHANGED <<aggVars, parseVars, sinkUp, renderVars, colorVars, sendVars, stageVars>>

SpecSQL == InitSQL /\ [][NextSQL]_vars

\* C15: the counters of the SQL sink. After every sample total = success +
\* error, total is the number of samples received, success is the number of
\* rows inserted (so error counts exactly the failed inserts); after failed
\* inserts Write is still in its loop unless the channel was closed; and
\* Write returns an error only from the table creation, before any sample
\* was received.
C15_SinkCounters ==
    /\ counts # <<>> =>
          /\ counts.total = counts.success + counts.error
          /\ counts.total = sqlRecv
          /\ counts.success = sqlRows
    /\ sqlRet = "none" /\ counts # <<>> => sqlpc = "loop"
    /\ sqlRet = "err" => (sqlRecv = 0 /\ sqlRows = 0 /\ counts = <<>>)

\* Inserts have failed and later samples were still stored.
C15_Witness ==
    /\ sqlpc = "loop"
    /\ counts.error >= 2
    /\ counts.success >= 2
    /\ counts.total = MaxSamples

----------------------------------------------------------------------------
\* export.SpectreServer.Write (unnamed/part_003:27-72): the sink that POSTs
\* batches to the spectre server. Samples are numbered in the order in which
\* they are received.

defaultSendSampleAmount == 100

\* samples Write may receive beyond the first full batch
MaxExtra == 3

\* values of the flag -spectreServerSamples
Amounts == {-1, 0, 2, 3}

\* lines 34-37
sendSamplesAmount ==
    IF SendSamplesAmount > 0 THEN SendSamplesAmount ELSE defaultSendSampleAmount

SendInit ==
    /\ SendSamplesAmount \in Amounts
    /\ wpc = "loop"
    /\ samplesToSend = <<>>
    /\ sendRecv = 0
    /\ posts = <<>>

\* line 41 for the next sample of the channel
Collected == Append(samplesToSend, sendRecv + 1)

\* lines 40-44: a sample is appended and the batch is not full yet.
SendCollect ==
    /\ wpc = "loop" /\ sendRecv < sendSamplesAmount + MaxExtra
    /\ Len(Collected) < sendSamplesAmount
    /\ samplesToSend' = Collected
    /\ sendRecv' = sendRecv + 1
    /\ UNCHANGED <<SendSamplesAmount, wpc, posts>>

\* lines 40-50: the batch is full and json.Marshal fails (a sample holds a
\* NaN or an infinity); continue.
SendMarshalErr ==
    /\ wpc = "loop" /\ sendRecv < sendSamplesAmount + MaxExtra
    /\ Len(Collected) >= sendSamplesAmount
    /\ samplesToSend' = Collected
    /\ sendRecv' = sendRecv + 1
    /\ UNCHANGED <<SendSamplesAmount, wpc, posts>>

\* lines 40-56: the batch is full and http.Post returns an error; continue.
SendPostErr ==
    /\ wpc = "loop" /\ sendRecv < sendSamplesAmount + MaxExtra
    /\ Len(Collected) >= sendSamplesAmount
    /\ samplesToSend' = Collected
    /\ sendRecv' = sendRecv + 1
    /\ posts' = Append(posts, [body |-> Collected, outcome |-> "error"])
    /\ UNCHANGED <<SendSamplesAmount, wpc>>

\* lines 40-68: the batch is full and http.Post returns a response, whatever
\* its status; the batch is emptied.
SendPost ==
    /\ wpc = "loop" /\ sendRecv < sendSamplesAmount + MaxExtra
    /\ Len(Collected) >= sendSamplesAmount
    /\ samplesToSend' = <<>>
    /\ sendRecv' = sendRecv + 1
    /\ \E o \in {"accepted", "rejected"} :
          posts' = Append(posts, [body |-> Collected, outcome |-> o])
    /\ UNCHANGED <<SendSamplesAmount, wpc>>

\* lines 40, 71: the channel is closed; Write returns nil.
SendClosed ==
    /\ wpc = "loop"
    /\ wpc' = "returned"
    /\ UNCHANGED <<SendSamplesAmount, samplesToSend, sendRecv, posts>>

InitSend ==
    /\ AggInit /\ ParseIdle /\ sinkUp = TRUE
    /\ RenderIdle /\ ColorIdle /\ SQLIdle /\ SendInit /\ StagesIdle

NextSend ==
    \/ SendCollect /\ UNCHANGED <<aggVars, parseVars, sinkUp, renderVars, colorVars, sqlVars, stageVars>>
    \/ SendMarshalErr /\ UNCHANGED <<aggVars, parseVars, sinkUp, renderVars, colorVars, sqlVars, stageVars>>
    \/ SendPostErr /\ UNCHANGED <<aggVars, parseVars, sinkUp, renderVars, colorVars, sqlVars, stageVars>>
    \/ SendPost /\ UNCHANGED <<aggVars, parseVars, sinkUp, renderVars, colorVars, sqlVars, stageVars>>
    \/ SendClosed /\ UNCHANGED <<aggVars, parseVars, sinkUp, renderVars, colorVars, sqlVars, stageVars>>

SpecSend == InitSend /\ [][NextSend]_vars

\* C16: every POST carries exactly SendSamplesAmount samples (100 when the
\* configured value is <= 0), whatever POSTs succeeded or failed before it.
C16_EveryPostIsOneBatch ==
    \A i \in DOMAIN posts :
        Len(posts[i].body) =
            (IF SendSamplesAmount <= 0 THEN 100 ELSE SendSamplesAmount)

\* The Write of the collector's own export package
\* (collection/export/spectre.go:26-54) is the same loop without the
\* assignment samplesToSend = nil after a POST.

\* lines 33-50: the batch is full and http.Post returns a response, whatever
\* its status; the batch is kept.
SendPostKeep ==
    /\ wpc = "loop" /\ sendRecv < sendSamplesAmount + MaxExtra
    /\ Len(Collected) >= sendSamplesAmount
    /\ samplesToSend' = Collected
    /\ sendRecv' = sendRecv + 1
    /\ \E o \in {"accepted", "rejected"} :
          posts' = Append(posts, [body |-> Collected, outcome |-> o])
    /\ UNCHANGED <<SendSamplesAmount, wpc>>

NextSendKeep ==
    \/ SendCollect /\ UNCHANGED <<aggVars, parseVars, sinkUp, renderVars, colorVars, sqlVars, stageVars>>
    \/ SendMarshalErr /\ UNCHANGED <<aggVars, parseVars, sinkUp, renderVars, colorVars, sqlVars, stageVars>>
    \/ SendPostErr /\ UNCHANGED <<aggVars, parseVars, sinkUp, renderVars, colorVars, sqlVars, stageVars>>
    \/ SendPostKeep /\ UNCHANGED <<aggVars, parseVars, sinkUp, renderVars, colorVars, sqlVars, stageVars>>
    \/ SendClosed /\ UNCHANGED <<aggVars, parseVars, sinkUp, renderVars, colorVars, sqlVars, stageVars>>

SpecSendKeep == InitSend /\ [][NextSendKeep]_vars

\* The samples of a batch.
InBody(b) == {b[i] : i \in DOMAIN b}

\* C29: every sample Write has received is delivered in exactly one
\* successful POST. A sample of a POST the server accepted is in no later
\* POST, and a sample that is in no accepted POST yet (its batch is not full,
\* failed to marshal, or its POST failed) is still held in samplesToSend.
C29_ExactlyOneSuccessfulPost ==
    /\ \A i, j \in DOMAIN posts :
          (i < j /\ posts[i].outcome = "accepted") =>
              InBody(posts[i].body) \cap InBody(posts[j].body) = {}
    /\ \A n \in 1..sendRecv :
          \/ n \in InBody(samplesToSend)
          \/ \E i \in DOMAIN posts :
                posts[i].outcome = "accepted" /\ n \in InBody(posts[i].body)

----------------------------------------------------------------------------
\* extraction.Render (unnamed/part_005:42-140, 282-448).
\*
\* The table holds the rows of the requested Source and Identifier pattern;
\* a row is its columns FreqLow, FreqCenter, FreqHigh, DBHigh, Start, End
\* (Start and End in Unix milliseconds). DBHigh is REAL in the table and
\* float32 in Render; the model uses integer dB values and exact arithmetic,
\* so float32 rounding is not modelled.

\* rows a table of the model holds at most
MaxRows == 3

\* math.MaxInt64 (line 357) is beyond TLC's integers; the largest integer TLC
\* has takes its place. The frequencies of the model are far below both.
MaxInt64 == 2147483647

\* time.Now() of line 361 in Unix milliseconds: Render runs after every row of
\* the model was collected.
RenderNow == 10000

\* The zero time.Time of line 362 (year 1) lies before every instant Unix
\* milliseconds in TLC's integers denote; the least of them takes its place.
ZeroTime == -2147483647

gridMarginTop == 20
gridMarginLeft == 150

RowAt(c, db, t) ==
    [FreqLow |-> c - 50, FreqCenter |-> c, FreqHigh |-> c + 50,
     DBHigh |-> db, Start |-> t, End |-> t + 500]

\* Two bins observed at two instants, one reading above 1000 dB at a third
\* instant, and one row of a wider bin with the center of the low bin.
StoredRows ==
    {RowAt(100, -50, 1000), RowAt(100, -20, 2000),
     RowAt(200, -20, 1000), RowAt(200, -50, 2000),
     RowAt(200, 1500, 3000),
     [FreqLow |-> 20, FreqCenter |-> 100, FreqHigh |-> 180,
      DBHigh |-> -20, Start |-> 2000, End |-> 2500]}

Tables == {T \in SUBSET StoredRows : Cardinality(T) <= MaxRows}

\* req.Filter: everything; the low bin only; the later instant only.
Filters ==
    {[StartFreq |-> 0, EndFreq |-> 1000, StartTime |-> 0, EndTime |-> 9000],
     [StartFreq |-> 40, EndFreq |-> 150, StartTime |-> 0, EndTime |-> 9000],
     [StartFreq |-> 0, EndFreq |-> 1000, StartTime |-> 1500, EndTime |-> 9000]}

\* req.Image.Height and Width as flags can carry them.
Requests == {-1, 0, 1, 3}

\* The WHERE clause of getFreqResolutionTmpl, of the inner SELECT of
\* getTimeResolutionTmpl and of getImgDataTmpl (lines 57-62, 78-83, 111-116).
Matching(T, f) ==
    {r \in T : /\ r.FreqLow >= f.StartFreq /\ r.FreqHigh <= f.EndFreq
               /\ r.Start >= f.StartTime /\ r.End <= f.EndTime}

SetMin(S) == CHOOSE x \in S : \A y \in S : x <= y
SetMax(S) == CHOOSE x \in S : \A y \in S : y <= x

\* GetMaxImageWidth: COUNT(DISTINCT(FreqCenter)), lines 52-62, 133-140.
GetMaxImageWidth(T, f) == Cardinality({r.FreqCenter : r \in Matching(T, f)})

\* GetMaxImageHeight: COUNT(DISTINCT(Start)) over the rows whose FreqCenter is
\* the lowest matching one; the outer WHERE has the time bounds only
\* (lines 67-88, 124-131). MIN over no row is NULL and equals nothing.
GetMaxImageHeight(T, f) ==
    IF Matching(T, f) = {} THEN 0
    ELSE LET lowest == SetMin({r.FreqCenter : r \in Matching(T, f)})
         IN  Cardinality({r.Start : r \in {s \in T : /\ s.FreqCenter = lowest
                                                       /\ s.Start >= f.StartTime
                                                       /\ s.End <= f.EndTime}})

ClampNever(requested, max) == IF requested = 0 THEN max ELSE requested

\* the switch of lines 329-335 and of lines 340-346
Clamp(requested, max) ==
    IF requested = 0 THEN max
    ELSE IF requested > 0 /\ requested > max THEN max
    ELSE requested

NtileAllBig(b, n, r) == (r - 1) \div (n \div b + 1) + 1

\* NTILE(b) for the row of rank r among n rows (lines 106-107): the first
\* n % b buckets take n \div b + 1 rows each, the others n \div b.
Ntile(b, n, r) ==
    LET q == n \div b
        big == n % b
    IN  IF r <= big * (q + 1) THEN (r - 1) \div (q + 1) + 1
        ELSE big + (r - big * (q + 1) - 1) \div q + 1

\* The orders ORDER BY can give the rows S: ascending in the key, rows with
\* equal keys in any order. Key(r) is the sort column.
OrdersBy(S, Key(_)) ==
    {p \in [1..Cardinality(S) -> S] :
        /\ \A i, j \in DOMAIN p : p[i] = p[j] => i = j
        /\ \A i, j \in DOMAIN p : i < j => Key(p[i]) <= Key(p[j])}

StartOf(r) == r.Start
FreqCenterOf(r) == r.FreqCenter

RankIn(p, r) == CHOOSE i \in DOMAIN p : p[i] = r

\* The inner SELECT of getImgDataTmpl (lines 98-120) for the orders po, fo.
InnerSelect(S, h, w, po, fo) ==
    {[row |-> r,
      TimeRank |-> RankIn(po, r), FreqRank |-> RankIn(fo, r),
      TimeBucket |-> Ntile(h, Cardinality(S), RankIn(po, r)),
      FreqBucket |-> Ntile(w, Cardinality(S), RankIn(fo, r))] : r \in S}

\* One row of the outer SELECT: the aggregates of a group (lines 89-97, 121).
Group(R, tb, fb) == {x.row : x \in {y \in R : y.TimeBucket = tb /\ y.FreqBucket = fb}}
CellOf(R, tb, fb) ==
    LET g == Group(R, tb, fb)
    IN  [freqLow |-> SetMin({r.FreqLow : r \in g}),
         freqHigh |-> SetMax({r.FreqHigh : r \in g}),
         db |-> SetMax({r.DBHigh : r \in g}),
         timeStart |-> SetMin({r.Start : r \in g}),
         timeEnd |-> SetMax({r.End : r \in g}),
         rowIdx |-> tb, colIdx |-> fb]

\* The groups in the order of their keys, as a sequence of result rows.
RECURSIVE CellSeq(_, _)
CellSeq(R, keys) ==
    IF keys = {} THEN <<>>
    ELSE LET k == CHOOSE a \in keys :
                    \A b \in keys : a[1] < b[1] \/ (a[1] = b[1] /\ a[2] <= b[2])
         IN  <<CellOf(R, k[1], k[2])>> \o CellSeq(R, keys \ {k})

OuterSelect(R) == CellSeq(R, {<<x.TimeBucket, x.FreqBucket>> : x \in R})

\* SpecRender: one call of Render.

RenderInit ==
    /\ table \in Tables
    /\ filter \in Filters
    /\ asked \in [Height : Requests, Width : Requests]
    /\ \E g \in BOOLEAN :
          req = [Height |-> asked.Height, Width |-> asked.Width, AddGrid |-> g]
    /\ rpc = "height"
    /\ maxImg = <<>>
    /\ ranked = <<>>
    /\ imgData = <<>>
    /\ ext = <<>>
    /\ img = <<>>
    /\ canvas = <<>>
    /\ drawn = <<>>
    /\ result = <<>>
    /\ rerr = "nil"

\* lines 325-328: the height query fails.
RenderHeightErr ==
    /\ rpc = "height"
    /\ rerr' = "unable to query sqlite DB to determine image height"
    /\ rpc' = "returned"
    /\ UNCHANGED <<table, filter, asked, req, maxImg, ranked, imgData, ext, img,
                   canvas, drawn, result>>

\* lines 325-335
RenderHeight ==
    /\ rpc = "height"
    /\ LET maxImgHeight == GetMaxImageHeight(table, filter)
       IN  /\ maxImg' = [Height |-> maxImgHeight]
           /\ req' = [req EXCEPT !.Height = Clamp(@, maxImgHeight)]
    /\ rpc' = "width"
    /\ UNCHANGED <<table, filter, asked, ranked, imgData, ext, img, canvas, drawn,
                   result, rerr>>

\* lines 336-339: the width query fails.
RenderWidthErr ==
    /\ rpc = "width"
    /\ rerr' = "unable to query sqlite DB to determine image width"
    /\ rpc' = "returned"
    /\ UNCHANGED <<table, filter, asked, req, maxImg, ranked, imgData, ext, img,
                   canvas, drawn, result>>

\* lines 336-346
RenderWidth ==
    /\ rpc = "width"
    /\ LET maxImgWidth == GetMaxImageWidth(table, filter)
       IN  /\ maxImg' = [Height |-> maxImg.Height, Width |-> maxImgWidth]
           /\ req' = [req EXCEPT !.Width = Clamp(@, maxImgWidth)]
    /\ rpc' = "query"
    /\ UNCHANGED <<table, filter, asked, ranked, imgData, ext, img, canvas, drawn,
                   result, rerr>>

\* lines 348-355: Prepare or Query fails (the database is gone, or the engine
\* rejects the statement when it is executed).
RenderQueryErr ==
    /\ rpc = "query"
    /\ rerr' = "query"
    /\ rpc' = "returned"
    /\ UNCHANGED <<table, filter, asked, req, maxImg, ranked, imgData, ext, img,
                   canvas, drawn, result>>

\* lines 348-364: the bucketing query runs with NTILE(Height), NTILE(Width)
\* and the locals are initialised. NTILE of a value below 1 is an error of
\* the engine as soon as a row reaches the window function: sqlite reports
\* it from the first Next(), which then ends the loop of line 365 with no
\* row read (Render does not look at imgData.Err()). With no matching row
\* the window function is never reached and the result is empty.
RenderQuery ==
    /\ rpc = "query"
    /\ LET S == Matching(table, filter)
       IN  IF S = {} \/ req.Height < 1 \/ req.Width < 1
           THEN /\ ranked' = [height |-> req.Height, width |-> req.Width, rows |-> {}]
                /\ imgData' = <<>>
           ELSE \E po \in OrdersBy(S, StartOf), fo \in OrdersBy(S, FreqCenterOf) :
                   LET R == InnerSelect(S, req.Height, req.Width, po, fo)
                   IN  /\ ranked' = [height |-> req.Height, width |-> req.Width,
                                     rows |-> R]
                       /\ imgData' = OuterSelect(R)
    /\ ext' = [lowFreq |-> MaxInt64, highFreq |-> 0,
               globalMinDB |-> 1000, globalMaxDB |-> -1000,
               sTime |-> RenderNow, eTime |-> ZeroTime]
    /\ img' = <<>>
    /\ rpc' = "scan"
    /\ UNCHANGED <<table, filter, asked, req, maxImg, canvas, drawn, result, rerr>>

ExtendLast(e, c) ==
    [lowFreq |-> c.freqLow, highFreq |-> c.freqHigh,
     globalMinDB |-> c.db, globalMaxDB |-> c.db,
     sTime |-> c.timeStart, eTime |-> c.timeEnd]

\* lines 376-396 for the result row c
Extend(e, c) ==
    [lowFreq |-> IF c.freqLow < e.lowFreq THEN c.freqLow ELSE e.lowFreq,
     highFreq |-> IF c.freqHigh > e.highFreq THEN c.freqHigh ELSE e.highFreq,
     globalMinDB |-> IF c.db < e.globalMinDB THEN c.db ELSE e.globalMinDB,
     globalMaxDB |-> IF c.db > e.globalMaxDB THEN c.db ELSE e.globalMaxDB,
     sTime |-> IF c.timeStart < e.sTime THEN c.timeStart ELSE e.sTime,
     eTime |-> IF c.timeEnd > e.eTime THEN c.timeEnd ELSE e.eTime]

\* lines 365-402: the next result row is read.
RenderScan ==
    /\ rpc = "scan" /\ imgData # <<>>
    /\ LET c == Head(imgData)
       IN  /\ ext' = Extend(ext, c)
           /\ img' = MapPut(img, <<c.rowIdx, c.colIdx>>, c.db)
    /\ imgData' = Tail(imgData)
    /\ UNCHANGED <<table, filter, asked, req, rpc, maxImg, ranked, canvas, drawn,
                   result, rerr>>

\* lines 365-374: Scan fails for the next result row; continue.
RenderScanErr ==
    /\ rpc = "scan" /\ imgData # <<>>
    /\ imgData' = Tail(imgData)
    /\ UNCHANGED <<table, filter, asked, req, rpc, maxImg, ranked, ext, img, canvas,
                   drawn, result, rerr>>

\* line 365: Next() fails before the result is exhausted; the loop ends.
RenderNextErr ==
    /\ rpc = "scan" /\ imgData # <<>>
    /\ imgData' = <<>>
    /\ UNCHANGED <<table, filter, asked, req, rpc, maxImg, ranked, ext, img, canvas,
                   drawn, result, rerr>>

\* lines 403-409: image.NewRGBA panics on a rectangle of negative width or
\* height (older Go releases: when the buffer length 4*w*h is negative).
RenderCanvasPanic ==
    /\ rpc = "scan" /\ imgData = <<>>
    /\ req.Width < 0 \/ req.Height < 0
    /\ rpc' = "panic"
    /\ UNCHANGED <<table, filter, asked, req, maxImg, ranked, imgData, ext, img,
                   canvas, drawn, result, rerr>>

\* lines 403-409
RenderCanvas ==
    /\ rpc = "scan" /\ imgData = <<>>
    /\ req.Width * req.Height >= 0
    /\ canvas' = [W |-> req.Width, H |-> req.Height, grid |-> FALSE, pix |-> <<>>]
    /\ rpc' = "draw"
    /\ UNCHANGED <<table, filter, asked, req, maxImg, ranked, imgData, ext, img,
                   drawn, result, rerr>>

\* uint16(f) of a float32 NaN is implementation-specific: builds yield 0 or
\* the low 16 bits of the largest integer.
NaNLevels == {0, MaxUint16}

\* line 417
LvlOf(db, globalMinDB, dbRange, nan) ==
    IF dbRange = 0 THEN nan
    ELSE Uint16(((db - globalMinDB) * MaxUint16) \div dbRange)

\* lines 411-426. canvas.SetRGBA(columnIdx, rowIdx, ...) leaves the image
\* alone for a point outside its bounds.
RenderDraw ==
    /\ rpc = "draw"
    /\ \E conv \in Conversions, nan \in NaNLevels :
          LET dbRange == ext.globalMaxDB - ext.globalMinDB
              lvls == [c \in DOMAIN img |-> LvlOf(img[c], ext.globalMinDB, dbRange, nan)]
              inside == {c \in DOMAIN img : /\ c[2] \in 0..(canvas.W - 1)
                                            /\ c[1] \in 0..(canvas.H - 1)}
          IN  /\ drawn' = [dbRange |-> dbRange, lvls |-> lvls]
              /\ canvas' = [canvas EXCEPT !.pix =
                              [p \in {<<c[2], c[1]>> : c \in inside} |->
                                  GetColor(lvls[<<p[2], p[1]>>], conv)]]
    /\ rpc' = "return"
    /\ UNCHANGED <<table, filter, asked, req, maxImg, ranked, imgData, ext, img,
                   result, rerr>>

\* DrawGrid, lines 207-217: the enlarged canvas and the waterfall copied into
\* it at (gridMarginLeft, gridMarginTop), clipped to the canvas. Tick marks
\* and labels (lines 219-277) are not represented.
DrawGrid(source) ==
    [W |-> source.W - 1 + gridMarginLeft,
     H |-> source.H - 1 + gridMarginTop,
     grid |-> TRUE,
     pix |-> LET kept == {p \in DOMAIN source.pix :
                             /\ p[1] + gridMarginLeft < source.W - 1 + gridMarginLeft
                             /\ p[2] + gridMarginTop < source.H - 1 + gridMarginTop}
             IN  [q \in {<<p[1] + gridMarginLeft, p[2] + gridMarginTop>> : p \in kept} |->
                     source.pix[<<q[1] - gridMarginLeft, q[2] - gridMarginTop>>]]]

\* lines 428-447. A float64 quotient is kept as its operands (a divisor 0
\* makes it an infinity or NaN), a duration as its two instants.
RenderReturn ==
    /\ rpc = "return"
    /\ canvas' = IF req.AddGrid THEN DrawGrid(canvas) ELSE canvas
    /\ result' =
          [Image |-> canvas',
           SourceMeta |-> [LowFreq |-> ext.lowFreq, HighFreq |-> ext.highFreq,
                           StartTime |-> ext.sTime, EndTime |-> ext.eTime],
           ImageMeta |-> [ImageHeight |-> req.Height, ImageWidth |-> req.Width,
                          FreqPerPixel |-> [num |-> ext.highFreq - ext.lowFreq,
                                            den |-> req.Width],
                          SecPerPixel |-> [from |-> ext.sTime, to |-> ext.eTime,
                                           den |-> req.Height]]]
    /\ rpc' = "returned"
    /\ UNCHANGED <<table, filter, asked, req, maxImg, ranked, imgData, ext, img,
                   drawn, rerr>>

InitRender ==
    /\ AggInit /\ ParseIdle /\ sinkUp = TRUE
    /\ RenderInit /\ ColorIdle /\ SQLIdle /\ SendIdle /\ StagesIdle

NextRender ==
    \/ RenderHeightErr /\ UNCHANGED <<aggVars, parseVars, sinkUp, colorVars, sqlVars, sendVars, stageVars>>
    \/ RenderHeight /\ UNCHANGED <<aggVars, parseVars, sinkUp, colorVars, sqlVars, sendVars, stageVars>>
    \/ RenderWidthErr /\ UNCHANGED <<aggVars, parseVars, sinkUp, colorVars, sqlVars, sendVars, stageVars>>
    \/ RenderWidth /\ UNCHANGED <<aggVars, parseVars, sinkUp, colorVars, sqlVars, sendVars, stageVars>>
    \/ RenderQueryErr /\ UNCHANGED <<aggVars, parseVars, sinkUp, colorVars, sqlVars, sendVars, stageVars>>
    \/ RenderQuery /\ UNCHANGED <<aggVars, parseVars, sinkUp, colorVars, sqlVars, sendVars, stageVars>>
    \/ RenderScan /\ UNCHANGED <<aggVars, parseVars, sinkUp, colorVars, sqlVars, sendVars, stageVars>>
    \/ RenderScanErr /\ UNCHANGED <<aggVars, parseVars, sinkUp, colorVars, sqlVars, sendVars, stageVars>>
    \/ RenderNextErr /\ UNCHANGED <<aggVars, parseVars, sinkUp, colorVars, sqlVars, sendVars, stageVars>>
    \/ RenderCanvasPanic /\ UNCHANGED <<aggVars, parseVars, sinkUp, colorVars, sqlVars, sendVars, stageVars>>
    \/ RenderCanvas /\ UNCHANGED <<aggVars, parseVars, sinkUp, colorVars, sqlVars, sendVars, stageVars>>
    \/ RenderDraw /\ UNCHANGED <<aggVars, parseVars, sinkUp, colorVars, sqlVars, sendVars, stageVars>>
    \/ RenderReturn /\ UNCHANGED <<aggVars, parseVars, sinkUp, colorVars, sqlVars, sendVars, stageVars>>

SpecRender == InitRender /\ [][NextRender]_vars

----------------------------------------------------------------------------
\* Claims about Render (SpecRender).

\* The data's natural ceilings: the number of distinct center frequencies of
\* the matching rows, and the number of distinct Start values the table holds
\* (within the time bounds) for the lowest of those center frequencies.
WidthCeiling == Cardinality({r.FreqCenter : r \in Matching(table, filter)})
HeightCeiling ==
    LET centers == {r.FreqCenter : r \in Matching(table, filter)}
    IN  Cardinality({r.Start : r \in {s \in table :
                        /\ centers # {} /\ \A c \in centers : s.FreqCenter <= c
                        /\ s.FreqCenter \in centers
                        /\ s.Start >= filter.StartTime /\ s.End <= filter.EndTime}})

ClampedAs(request, used, ceiling) ==
    /\ used <= ceiling
    /\ request = 0 => used = ceiling
    /\ request \in 1..ceiling => used = request
    /\ request > ceiling => used = ceiling

\* C11: the clamp. For every requested height and width (0, within the
\* ceiling, above it, negative) the value Render goes on with after its
\* clamp, passes to NTILE and gives the canvas is at most the ceiling: 0
\* becomes the ceiling, a request in 1..ceiling is kept, a larger one is
\* reduced to the ceiling; and no error has been returned when the clamp
\* is through.
C11_ClampToCeiling ==
    /\ rpc \in {"width", "query"} =>
          /\ rerr = "nil"
          /\ ClampedAs(asked.Height, req.Height, HeightCeiling)
    /\ rpc = "query" => ClampedAs(asked.Width, req.Width, WidthCeiling)
    /\ ranked # <<>> =>
          /\ ClampedAs(asked.Height, ranked.height, HeightCeiling)
          /\ ClampedAs(asked.Width, ranked.width, WidthCeiling)
    /\ (canvas # <<>> /\ rpc \in {"draw", "return"}) =>
          /\ ClampedAs(asked.Height, canvas.H, HeightCeiling)
          /\ ClampedAs(asked.Width, canvas.W, WidthCeiling)

\* A height above the ceiling was reduced and a width of 0 became the ceiling.
C11_Witness ==
    /\ rpc = "draw"
    /\ asked.Height = 3 /\ canvas.H = 2 /\ HeightCeiling = 2
    /\ asked.Width = 0 /\ canvas.W = 2

\* C12: a filter that matches no row. Render returns an error and no image,
\* and it never runs the bucketing query, nor computes the metadata, with a
\* height or width of 0.
C12_NoDataIsAnError ==
    Matching(table, filter) = {} =>
        /\ rpc = "returned" => (rerr # "nil" /\ result = <<>>)
        /\ ranked # <<>> => (ranked.height # 0 /\ ranked.width # 0)
        /\ result # <<>> =>
              /\ result.ImageMeta.FreqPerPixel.den # 0
              /\ result.ImageMeta.SecPerPixel.den # 0

\* C13: cells that all hold one value. When the drawing loop has run over
\* cells whose values are all equal, it did not divide by a dB range of 0.
C13_NoZeroRangeDivision ==
    (drawn # <<>> /\ DOMAIN img # {} /\ ext.globalMaxDB = ext.globalMinDB) =>
        drawn.dbRange # 0

\* Rank-based bucketing of the rows R into b buckets along one axis.
RankBucketed(R, b, Key(_), Rank(_), Bucket(_)) ==
    LET n == Cardinality(R)
        size(k) == Cardinality({x \in R : Bucket(x) = k})
    IN  /\ {Rank(x) : x \in R} = 1..n
        /\ \A x, y \in R : Key(x.row) < Key(y.row) => Rank(x) < Rank(y)
        /\ \A x \in R : Bucket(x) \in 1..b
        /\ \A x, y \in R : Rank(x) < Rank(y) => Bucket(x) <= Bucket(y)
        /\ \A k \in 1..b :
              /\ size(k) >= 1
              /\ size(k) = n \div b \/ size(k) = (n + b - 1) \div b

TimeRankOf(x) == x.TimeRank
TimeBucketOf(x) == x.TimeBucket
FreqRankOf(x) == x.FreqRank
FreqBucketOf(x) == x.FreqBucket

\* C19: rank-based bucketing. For n matching rows and b buckets with
\* 1 <= b <= n, along the time axis (by Start) and along the frequency axis
\* (by FreqCenter): ranks are 1..n in ascending key order, every row is in a
\* bucket 1..b, the bucket does not decrease with the rank, no bucket is
\* empty and every bucket holds floor(n/b) or ceil(n/b) rows.
C19_RankBucketing ==
    (ranked # <<>> /\ ranked.rows # {}) =>
        LET R == ranked.rows
            n == Cardinality(R)
        IN  /\ ranked.height \in 1..n =>
                  RankBucketed(R, ranked.height, StartOf, TimeRankOf, TimeBucketOf)
            /\ ranked.width \in 1..n =>
                  RankBucketed(R, ranked.width, FreqCenterOf, FreqRankOf, FreqBucketOf)

\* Three rows in two time buckets of two rows and one row, rows with equal
\* Start among them, and two frequency buckets.
C19_Witness ==
    /\ ranked # <<>>
    /\ Cardinality(ranked.rows) = 3
    /\ ranked.height = 2 /\ ranked.width = 2
    /\ Cardinality({x \in ranked.rows : x.TimeBucket = 1}) = 2
    /\ \E x, y \in ranked.rows : x # y /\ x.row.Start = y.row.Start

\* The metadata and the dB range are the extents of the cells read.
MetadataIsExtents ==
    (rpc = "returned" /\ result # <<>> /\ DOMAIN img # {}) =>
        LET cells == {CellOf(ranked.rows, k[1], k[2]) : k \in DOMAIN img}
            values == {img[k] : k \in DOMAIN img}
        IN  /\ result.SourceMeta.LowFreq = SetMin({c.freqLow : c \in cells})
            /\ result.SourceMeta.HighFreq = SetMax({c.freqHigh : c \in cells})
            /\ result.SourceMeta.StartTime = SetMin({c.timeStart : c \in cells})
            /\ result.SourceMeta.EndTime = SetMax({c.timeEnd : c \in cells})
            /\ ext.globalMinDB = SetMin(values)
            /\ ext.globalMaxDB = SetMax(values)
            /\ drawn.dbRange = SetMax(values) - SetMin(values)

\* C20: the metadata are the extents of the rendered cells. For every
\* non-empty set of matching rows, when Render returns an image of at least
\* one cell, LowFreq, HighFreq, StartTime and EndTime are the least FreqLow,
\* greatest FreqHigh, least Start and greatest End over the cells read, and
\* the dB range of the normalisation goes from the least to the greatest
\* cell value.
C20_MetadataIsExtents == Matching(table, filter) # {} => MetadataIsExtents

\* C20, amended: the same for matching rows whose dB values lie strictly
\* between -1000 and 1000 and whose Start is not later than the moment
\* Render runs, the values Render starts its minima and maxima from.
C20_MetadataIsExtentsOfOrdinaryRows ==
    (/\ Matching(table, filter) # {}
     /\ \A r \in Matching(table, filter) :
           /\ r.DBHigh > -1000 /\ r.DBHigh < 1000
           /\ r.Start <= RenderNow)
        => MetadataIsExtents

\* An image of several cells with different values whose extents are
\* narrower than the bounds of the filter.
C20_Witness ==
    /\ rpc = "returned" /\ result # <<>>
    /\ \A r \in Matching(table, filter) : r.DBHigh > -1000 /\ r.DBHigh < 1000
    /\ Cardinality(DOMAIN img) >= 2
    /\ ext.globalMinDB < ext.globalMaxDB
    /\ result.SourceMeta.LowFreq > filter.StartFreq
    /\ result.SourceMeta.HighFreq < filter.EndFreq
    /\ result.SourceMeta.StartTime > filter.StartTime
    /\ result.SourceMeta.EndTime < filter.EndTime

----------------------------------------------------------------------------
\* extraction.findGridStepSize (unnamed/part_005:192-205), called by
\* DrawGrid with the width (horizontal) and the height of the source raster.

MaxExtent == 450
gridMinStepX == 100
gridMinStepY == 20

\* lines 193-196
gridMinStep(h) == IF h THEN gridMinStepX ELSE gridMinStepY

Third(s) == s \div 3

\* line 198: n := step / 2
Half(s) == s \div 2

GridInit ==
    /\ extent \in 0..MaxExtent
    /\ horizontal \in BOOLEAN
    /\ step = extent
    /\ gpc = "loop"
    /\ halvings = 0

\* lines 197-202: one iteration that goes on with the halved step
GridHalve ==
    /\ gpc = "loop"
    /\ step > gridMinStep(horizontal)
    /\ ~(Half(step) < gridMinStep(horizontal))
    /\ step' = Half(step)
    /\ halvings' = halvings + 1
    /\ UNCHANGED <<extent, horizontal, gpc>>

\* lines 197-200: the halved step would be below the minimum; return step
GridReturnEarly ==
    /\ gpc = "loop"
    /\ step > gridMinStep(horizontal)
    /\ Half(step) < gridMinStep(horizontal)
    /\ gpc' = "returned"
    /\ UNCHANGED <<extent, horizontal, step, halvings>>

\* lines 197, 204: the loop condition fails; return step
GridReturn ==
    /\ gpc = "loop"
    /\ ~(step > gridMinStep(horizontal))
    /\ gpc' = "returned"
    /\ UNCHANGED <<extent, horizontal, step, halvings>>

InitGrid ==
    /\ AggInit /\ ParseIdle /\ sinkUp = TRUE
    /\ RenderIdle /\ ColorIdle /\ SQLIdle /\ SendIdle
    /\ GridInit /\ FilterIdle /\ CollectIdle

NextGrid ==
    \/ GridHalve /\ UNCHANGED <<aggVars, parseVars, sinkUp, renderVars, colorVars, sqlVars, sendVars, filterVars, collectVars>>
    \/ GridReturnEarly /\ UNCHANGED <<aggVars, parseVars, sinkUp, renderVars, colorVars, sqlVars, sendVars, filterVars, collectVars>>
    \/ GridReturn /\ UNCHANGED <<aggVars, parseVars, sinkUp, renderVars, colorVars, sqlVars, sendVars, filterVars, collectVars>>

SpecGrid == InitGrid /\ [][NextGrid]_vars

\* The threshold of the axis the call is for.
Threshold == IF horizontal THEN gridMinStepX ELSE gridMinStepY

\* The step is the extent halved `halvings` times, and is at least 1; the
\* number of iterations is therefore bounded by the extent (termination).
HalvedFromExtent ==
    /\ step = extent \div (2 ^ halvings)
    /\ step >= 1
    /\ (2 ^ halvings) * step <= extent

\* C22 as stated: for every extent >= 1 the call returns a step obtained by
\* repeated integer halving that is at least 1 and at or below the
\* threshold of its axis.
C22_StepAtOrBelowThreshold ==
    (gpc # "idle" /\ extent >= 1) =>
        /\ HalvedFromExtent
        /\ (gpc = "returned" => step <= Threshold)

\* C22, amended: for every extent >= 1 the call returns a step obtained by
\* repeated integer halving that is at least 1; it is the extent itself when
\* the extent is at or below the threshold, and otherwise it is at least the
\* threshold and less than twice the threshold.
C22_StepNotBelowThreshold ==
    (gpc # "idle" /\ extent >= 1) =>
        /\ HalvedFromExtent
        /\ (gpc = "returned" =>
               IF extent <= Threshold THEN step = extent /\ halvings = 0
               ELSE Threshold <= step /\ step < 2 * Threshold)

C22_Witness ==
    /\ gpc = "returned" /\ horizontal
    /\ extent > 4 * gridMinStepX
    /\ halvings = 2
    /\ step > gridMinStepX

\* C23: DrawGrid returns a canvas gridMarginLeft wider and gridMarginTop
\* taller than the W x H source raster, in which every source pixel (x, y)
\* appears at (x + gridMarginLeft, y + gridMarginTop).
C23_GridKeepsSource ==
    [][(rpc = "return" /\ rpc' = "returned" /\ req.AddGrid
        /\ canvas.W >= 1 /\ canvas.H >= 1) =>
           /\ canvas'.W = canvas.W + gridMarginLeft
           /\ canvas'.H = canvas.H + gridMarginTop
           /\ \A p \in DOMAIN canvas.pix :
                 LET q == <<p[1] + gridMarginLeft, p[2] + gridMarginTop>>
                 IN  /\ q \in DOMAIN canvas'.pix
                     /\ canvas'.pix[q] = canvas.pix[p]]_vars

\* C24: if the bucketing query fails, or reading any of its result rows
\* fails, Render returns an error and no image. An image is returned only
\* when every row of the result was read: never from a part of the result.
C24_ReadFailureIsAnError ==
    rpc = "returned" =>
        /\ (rerr # "nil" => result = <<>>)
        /\ (result # <<>> =>
               /\ rerr = "nil"
               /\ DOMAIN img = {<<x.TimeBucket, x.FreqBucket>> : x \in ranked.rows})

----------------------------------------------------------------------------
\* filter.Filter and FilterFreq.ShouldIgnore (unnamed/part_005:450-487).
\* A sample is its FreqLow and FreqHigh, the two fields the filter reads.

MaxFilters == 2
MaxInput == 3

Band(lo, hi) == [FreqLow |-> lo, FreqHigh |-> hi]

\* the FilterFreq values and the samples of the model
FilterFreqs == {Band(0, 25), Band(28, 50), Band(100, 200)}
FilterSamples == {Band(10, 20), Band(30, 40), Band(15, 35)}

SeqsUpTo(S, n) == UNION {[1..k -> S] : k \in 0..n}

\* lines 477-487
ShouldIgnore(f, s) ==
    IF s.FreqLow > f.FreqHigh THEN TRUE
    ELSE IF s.FreqHigh < f.FreqLow THEN TRUE
    ELSE FALSE

\* lines 460-463: skip after the loop over the filters fs, starting from skip
RECURSIVE SkipAfter(_, _, _)
SkipAfter(skip, fs, s) ==
    IF fs = <<>> THEN skip
    ELSE SkipAfter(ShouldIgnore(Head(fs), s), Tail(fs), s)

FilterInit ==
    /\ filters \in SeqsUpTo(FilterFreqs, MaxFilters)
    /\ filterIn \in SeqsUpTo(FilterSamples, MaxInput)
    /\ filterSeen = <<>>
    /\ filterOut = <<>>
    /\ flpc = "range"

\* lines 459-466: a sample is received and skipped.
FilterSkip ==
    /\ flpc = "range" /\ filterIn # <<>>
    /\ SkipAfter(FALSE, filters, Head(filterIn))
    /\ filterSeen' = Append(filterSeen, Head(filterIn))
    /\ filterIn' = Tail(filterIn)
    /\ UNCHANGED <<filters, filterOut, flpc>>

\* lines 459-467: a sample is received and sent to output.
FilterForward ==
    /\ flpc = "range" /\ filterIn # <<>>
    /\ ~SkipAfter(FALSE, filters, Head(filterIn))
    /\ filterSeen' = Append(filterSeen, Head(filterIn))
    /\ filterOut' = Append(filterOut, Head(filterIn))
    /\ filterIn' = Tail(filterIn)
    /\ UNCHANGED <<filters, flpc>>

\* lines 459, 469: input is closed; Filter returns nil.
FilterClosed ==
    /\ flpc = "range" /\ filterIn = <<>>
    /\ flpc' = "returned"
    /\ UNCHANGED <<filters, filterIn, filterSeen, filterOut>>

InitFilter ==
    /\ AggInit /\ ParseIdle /\ sinkUp = TRUE
    /\ RenderIdle /\ ColorIdle /\ SQLIdle /\ SendIdle
    /\ GridIdle /\ FilterInit /\ CollectIdle

NextFilter ==
    \/ FilterSkip /\ UNCHANGED <<aggVars, parseVars, sinkUp, renderVars, colorVars, sqlVars, sendVars, gridVars, collectVars>>
    \/ FilterForward /\ UNCHANGED <<aggVars, parseVars, sinkUp, renderVars, colorVars, sqlVars, sendVars, gridVars, collectVars>>
    \/ FilterClosed /\ UNCHANGED <<aggVars, parseVars, sinkUp, renderVars, colorVars, sqlVars, sendVars, gridVars, collectVars>>

SpecFilter == InitFilter /\ [][NextFilter]_vars

\* C27: Filter forwards a sample if and only if no configured filter's
\* ShouldIgnore is true for it: the output is the received samples that no
\* filter ignores, in their input order (all of them with no filter).
C27_ForwardsIffNoFilterIgnores ==
    LET Kept(s) == \A i \in DOMAIN filters : ~ShouldIgnore(filters[i], s)
    IN  filterOut = SelectSeq(filterSeen, Kept)

\* C28: every (TimeBucket, FreqBucket) cell the bucketing query returns is
\* painted at a pixel of its own inside the W x H canvas, and every canvas
\* row 0..H-1 and column 0..W-1 receives the cells of a bucket. Stated for
\* the canvas as the drawing loop leaves it, when every result row was read.
C28_BucketsCoverCanvas ==
    (/\ rpc = "return" /\ canvas.W >= 1 /\ canvas.H >= 1
     /\ DOMAIN img = {<<x.TimeBucket, x.FreqBucket>> : x \in ranked.rows}) =>
        /\ Cardinality(DOMAIN canvas.pix) = Cardinality(DOMAIN img)
        /\ \A y \in 0..(canvas.H - 1) : \E p \in DOMAIN canvas.pix : p[2] = y
        /\ \A x \in 0..(canvas.W - 1) : \E p \in DOMAIN canvas.pix : p[1] = x

----------------------------------------------------------------------------
\* SpectreServer.collectHandler (server/server.go:188-201) and the channel
\* s.Samples made in main (server.go:334-340). net/http runs every request
\* in a goroutine of its own; the exporter's Write receives from the channel.
\* A sample is named by the request it came in and its position in the body.

MaxRequests == 2
MaxBody == 2

\* make(chan sdr.Sample, 1000): the capacity, scaled down so that the
\* requests of the model can fill the channel.
SamplesCap == 2

Handlers == 1..MaxRequests
Methods == {"POST", "GET"}

\* request bodies: a JSON array of n samples, the JSON value null, a JSON
\* object, or text that is not JSON
Bodies ==
    {[kind |-> "array", n |-> n] : n \in 0..MaxBody}
        \cup {[kind |-> "null", n |-> 0], [kind |-> "object", n |-> 0],
              [kind |-> "garbage", n |-> 0]}

\* line 194: json.NewDecoder(r.Body).Decode(&samples) into a []sdr.Sample.
\* An array gives its elements in order, null gives the empty slice, and
\* anything else is an error.
Decode(h, body) ==
    IF body.kind = "array"
      THEN [err |-> FALSE, samples |-> [i \in 1..body.n |-> [req |-> h, pos |-> i]]]
    ELSE IF body.kind = "null" THEN [err |-> FALSE, samples |-> <<>>]
    ELSE [err |-> TRUE, samples |-> <<>>]

CollectInit ==
    /\ Samples = <<>>
    /\ hpc = [h \in Handlers |-> "idle"]
    /\ hreq = [h \in Handlers |-> <<>>]
    /\ hsamples = [h \in Handlers |-> <<>>]
    /\ hidx = [h \in Handlers |-> 0]
    /\ hstatus = [h \in Handlers |-> 0]
    /\ written = <<>>

\* a request arrives and the handler is called
CollectRequest(h) ==
    /\ hpc[h] = "idle"
    /\ \E m \in Methods, b \in Bodies : hreq' = [hreq EXCEPT ![h] = [method |-> m, body |-> b]]
    /\ hpc' = [hpc EXCEPT ![h] = "method"]
    /\ UNCHANGED <<Samples, hsamples, hidx, hstatus, written>>

\* lines 189-192
CollectBadMethod(h) ==
    /\ hpc[h] = "method"
    /\ hreq[h].method # "POST"
    /\ hstatus' = [hstatus EXCEPT ![h] = 400]
    /\ hpc' = [hpc EXCEPT ![h] = "done"]
    /\ UNCHANGED <<Samples, hreq, hsamples, hidx, written>>

\* lines 189, 193-197
CollectDecodeErr(h) ==
    /\ hpc[h] = "method"
    /\ hreq[h].method = "POST"
    /\ Decode(h, hreq[h].body).err
    /\ hstatus' = [hstatus EXCEPT ![h] = 400]
    /\ hpc' = [hpc EXCEPT ![h] = "done"]
    /\ UNCHANGED <<Samples, hreq, hsamples, hidx, written>>

\* lines 189, 193-194, 198
CollectDecode(h) ==
    /\ hpc[h] = "method"
    /\ hreq[h].method = "POST"
    /\ ~Decode(h, hreq[h].body).err
    /\ hsamples' = [hsamples EXCEPT ![h] = Decode(h, hreq[h].body).samples]
    /\ hpc' = [hpc EXCEPT ![h] = "range"]
    /\ UNCHANGED <<Samples, hreq, hidx, hstatus, written>>

CollectSendOrDrop(h) ==
    /\ hpc[h] = "range"
    /\ hidx[h] < Len(hsamples[h])
    /\ Samples' = IF Len(Samples) < SamplesCap
                    THEN Append(Samples, hsamples[h][hidx[h] + 1])
                    ELSE Samples
    /\ hidx' = [hidx EXCEPT ![h] = @ + 1]
    /\ UNCHANGED <<hpc, hreq, hsamples, hstatus, written>>

\* lines 198-199: s.Samples <- sample, which waits while the channel is full
CollectSend(h) ==
    /\ hpc[h] = "range"
    /\ hidx[h] < Len(hsamples[h])
    /\ Len(Samples) < SamplesCap
    /\ Samples' = Append(Samples, hsamples[h][hidx[h] + 1])
    /\ hidx' = [hidx EXCEPT ![h] = @ + 1]
    /\ UNCHANGED <<hpc, hreq, hsamples, hstatus, written>>

\* lines 198-201: the loop is through and the handler returns; net/http
\* answers 200.
CollectReturn(h) ==
    /\ hpc[h] = "range"
    /\ hidx[h] = Len(hsamples[h])
    /\ hstatus' = [hstatus EXCEPT ![h] = 200]
    /\ hpc' = [hpc EXCEPT ![h] = "done"]
    /\ UNCHANGED <<Samples, hreq, hsamples, hidx, written>>

\* server.go:336-340: the exporter receives the next sample of the channel
CollectExport ==
    /\ Samples # <<>>
    /\ written' = Append(written, Head(Samples))
    /\ Samples' = Tail(Samples)
    /\ UNCHANGED <<hpc, hreq, hsamples, hidx, hstatus>>

InitCollect ==
    /\ AggInit /\ ParseIdle /\ sinkUp = TRUE
    /\ RenderIdle /\ ColorIdle /\ SQLIdle /\ SendIdle
    /\ GridIdle /\ FilterIdle /\ CollectInit

NextCollect ==
    \/ \E h \in Handlers : CollectRequest(h) /\ UNCHANGED <<aggVars, parseVars, sinkUp, renderVars, colorVars, sqlVars, sendVars, gridVars, filterVars>>
    \/ \E h \in Handlers : CollectBadMethod(h) /\ UNCHANGED <<aggVars, parseVars, sinkUp, renderVars, colorVars, sqlVars, sendVars, gridVars, filterVars>>
    \/ \E h \in Handlers : CollectDecodeErr(h) /\ UNCHANGED <<aggVars, parseVars, sinkUp, renderVars, colorVars, sqlVars, sendVars, gridVars, filterVars>>
    \/ \E h \in Handlers : CollectDecode(h) /\ UNCHANGED <<aggVars, parseVars, sinkUp, renderVars, colorVars, sqlVars, sendVars, gridVars, filterVars>>
    \/ \E h \in Handlers : CollectSend(h) /\ UNCHANGED <<aggVars, parseVars, sinkUp, renderVars, colorVars, sqlVars, sendVars, gridVars, filterVars>>
    \/ \E h \in Handlers : CollectReturn(h) /\ UNCHANGED <<aggVars, parseVars, sinkUp, renderVars, colorVars, sqlVars, sendVars, gridVars, filterVars>>
    \/ CollectExport /\ UNCHANGED <<aggVars, parseVars, sinkUp, renderVars, colorVars, sqlVars, sendVars, gridVars, filterVars>>

SpecCollect == InitCollect /\ [][NextCollect]_vars

\* The samples of request h that have been put on the channel, in the order
\* in which they were put there.
EnqueuedOf(h) ==
    LET From(s) == s.req = h
    IN  SelectSeq(written \o Samples, From)

\* The request of h is a POST whose body is a JSON array of samples.
ValidPost(h) == hreq[h].method = "POST" /\ hreq[h].body.kind = "array"

\* C30: collectHandler enqueues samples only for a POST whose body decodes
\* as a JSON array of samples. Any other request is answered with 400 and
\* enqueues nothing; a valid request enqueues every sample of its body
\* exactly once and in body order, waiting while the channel is full (the
\* channel never holds more than its capacity and no sample is skipped), and
\* has enqueued all of them when it is answered.
C30_CollectEnqueuesValidPosts ==
    /\ Len(Samples) <= SamplesCap
    /\ \A h \in Handlers :
          hpc[h] # "idle" =>
             /\ ~ValidPost(h) => EnqueuedOf(h) = <<>>
             /\ (hpc[h] = "done" /\ (hreq[h].method # "POST"
                                       \/ hreq[h].body.kind \in {"object", "garbage"}))
                    => hstatus[h] = 400
             /\ hstatus[h] = 400 => EnqueuedOf(h) = <<>>
             /\ ValidPost(h) =>
                   /\ EnqueuedOf(h) = [i \in 1..hidx[h] |-> [req |-> h, pos |-> i]]
                   /\ hidx[h] <= hreq[h].body.n
                   /\ hpc[h] = "done" =>
                         (hidx[h] = hreq[h].body.n /\ hstatus[h] = 200)

\* A handler waits with a sample in hand while the channel is full and the
\* exporter has already received samples.
C30_Witness ==
    /\ Len(Samples) = SamplesCap
    /\ written # <<>>
    /\ \E h \in Handlers :
          /\ hpc[h] = "range" /\ hidx[h] >= 1 /\ hidx[h] < Len(hsamples[h])
    /\ \E h \in Handlers : hpc[h] = "done" /\ hstatus[h] = 200

====
